---- MODULE Spec2Model ----
(***************************************************************************)
(* Tool-calling orchestration of the VLLM chat backend.                    *)
(*                                                                         *)
(*   backend/agent.py        FunctionCallAgent (registry, extractor, loop) *)
(*                           and its VLLMClient.chat_completion            *)
(*   backend/vllm_client.py  VLLMClient.chat (gateway used by the routes)  *)
(*   backend/app.py          /api/chat route (structured tool_calls)       *)
(*                                                                         *)
(* Strings produced by the model and by handlers are abstracted to records *)
(* that keep what the code inspects: whether a fenced block exists, what   *)
(* json.loads makes of it, which keys a decoded object has.                *)
(***************************************************************************)
EXTENDS Integers, Sequences, FiniteSets, TLC

VARIABLES
    (* ---- FunctionCallAgent, agent.py ---- *)
    tools,                  \* self.tools: name -> Tool, NoTool when absent
    conversation_history,   \* self.conversation_history
    max_iterations,         \* self.max_iterations
    call,                   \* per caller of chat(): position in the coroutine and locals
    system_prompt,          \* self.system_prompt
    endpoint,               \* behaviour of the inference endpoint (environment)
    failedBefore,           \* history: a chat() on this transcript ended in the except branch
    clearedFrom,            \* history: length of the transcript the last operation cleared, else 0
    lastOp,                 \* history: per name, the last add_tool or remove_tool on it
    lastAnswer,             \* history: per caller, the endpoint's last answer to its chat()
    (* ---- one direct call of a gateway client ---- *)
    gw,                     \* arguments, request, the endpoint's answer and the result
    (* ---- /api/chat of app.py ---- *)
    model,                  \* vllm_client.model, the configured model identifier
    chatReq,                \* per request: position in the handler and its locals
    (* ---- one direct call of FunctionCallAgent.execute_tool ---- *)
    inv,                    \* arguments, position and the ToolResult returned
    (* ---- one direct call of FunctionCallAgent._parse_tool_call ---- *)
    ext                     \* the content given and the value returned

agentVars == <<tools, conversation_history, max_iterations, call, system_prompt,
               endpoint, failedBefore, clearedFrom, lastOp, lastAnswer>>

\* what the agent's operations leave alone
routeVars == <<gw, model, chatReq, inv, ext>>

vars == <<agentVars, routeVars>>

----------------------------------------------------------------------------
(* Bounds of the model *)

\* largest max_iterations an agent is constructed with (the default is 10, agent.py:116)
MaxIterations == 2

\* chat() is started only while the transcript has at most this many turns
MaxTurns == 3

\* most tool calls in one model turn
MaxCalls == 2

----------------------------------------------------------------------------
(* Values *)

Callers == {"a", "b"}          \* coroutines that may be inside chat() of one agent
SeqCallers == {"a"}            \* the strictly sequential caller

ToolNames == {"t1", "t2"}      \* names a Tool may be registered under
LoopToolNames == {"t1"}        \* the names registered while the loop is exercised
GhostName == "ghost"           \* a name no Tool is ever registered under
Unhashable == "unhashable"     \* a JSON list or object given as the name
UserMessages == {"u1"}
Requests == {"r1", "r2"}       \* requests that may be inside /api/chat
SeqRequests == {"r1"}          \* the requests of a client that sends one at a time
RouteMessages == {"hello", "what time is it"}

SystemPrompts == {"default_prompt", "custom_prompt"}

NoTool == [name |-> "none", fn |-> "absent"]
\* Tool(name, function): function is None, a plain function or a coroutine function
Tool(n, f) == [name |-> n, fn |-> f]
HandlerKinds == {"none", "sync", "async"}

----------------------------------------------------------------------------
(* Model output.  A decoded JSON value keeps its type (j), whether the test *)
(* `"tool_call" in parsed` is true of it (hasKey) and, for an object, the  *)
(* value stored under "tool_call" (tc).                                    *)

\* the value under "tool_call": its type, whether `"name" in tool_call` is true,
\* the name and the kind of its "parameters"
NoCall == [shape |-> "none", hasName |-> FALSE, name |-> "none", params |-> "none"]
TCDict(n, ps) == [shape |-> "dict", hasName |-> TRUE, name |-> n, params |-> ps]
TCDictNoName == [shape |-> "dict", hasName |-> FALSE, name |-> "none", params |-> "empty"]
TCStr(h) == [shape |-> "str", hasName |-> h, name |-> "none", params |-> "none"]
TCList(h) == [shape |-> "list", hasName |-> h, name |-> "none", params |-> "none"]
TCNum == [shape |-> "num", hasName |-> FALSE, name |-> "none", params |-> "none"]
TCFalsy == [shape |-> "falsy", hasName |-> FALSE, name |-> "none", params |-> "none"]

JInvalid == [j |-> "invalid", hasKey |-> FALSE, tc |-> NoCall]
JObj(t) == [j |-> "obj", hasKey |-> TRUE, tc |-> t]
JObjNoKey == [j |-> "obj", hasKey |-> FALSE, tc |-> NoCall]
JStr(h) == [j |-> "str", hasKey |-> h, tc |-> NoCall]
JList(h) == [j |-> "list", hasKey |-> h, tc |-> NoCall]
JScalar == [j |-> "scalar", hasKey |-> FALSE, tc |-> NoCall]

\* content of choices[0].message: None, or text with (fenced) or without a
\* ```json block; block is json.loads of the text between the first ```json and
\* the next ```, direct of the whole text; later is the tool call held by a
\* fenced block that comes after the first ```json marker
ContentNone == [isNone |-> TRUE, fenced |-> "none", block |-> JInvalid, direct |-> JInvalid,
                later |-> NoCall]
Text(f, b, d) == [isNone |-> FALSE, fenced |-> f, block |-> b, direct |-> d, later |-> NoCall]
LaterFencedCall(b, d, t) == [Text("block", b, d) EXCEPT !.later = t]
Prose == Text("none", JInvalid, JInvalid)
FencedCall(n, ps) == Text("block", JObj(TCDict(n, ps)), JInvalid)
DirectCall(n, ps) == Text("none", JInvalid, JObj(TCDict(n, ps)))

\* json.loads / membership / subscript outcomes of one extraction stage
Found(t) == [r |-> "found", tc |-> t]
Miss == [r |-> "miss", tc |-> NoCall]
Raised == [r |-> "raise", tc |-> NoCall]

\* agent.py 217-224: the first fenced block
FencedStage(c) ==
    IF c.fenced # "block" THEN Miss            \* no ```json, or no closing ```
    ELSE IF c.block.j = "invalid" THEN Raised  \* json.loads raises
    ELSE IF c.block.j = "scalar" THEN Raised   \* `in` on a number, bool or None
    ELSE IF ~c.block.hasKey THEN Miss
    ELSE IF c.block.j = "obj" THEN Found(c.block.tc)
    ELSE Raised                                \* str or list subscripted by a key

\* agent.py 227-232: the whole content, every exception swallowed
DirectStage(c) ==
    IF c.direct.j = "obj" /\ c.direct.hasKey THEN c.direct.tc ELSE NoCall

\* the whole content tried before the fenced block
ParseToolCallDirectFirst(c) ==
    IF c.isNone THEN NoCall
    ELSE IF DirectStage(c) # NoCall THEN DirectStage(c)
    ELSE LET f == FencedStage(c) IN
         IF f.r = "found" THEN f.tc ELSE NoCall

\* a search through every fenced block: when the first one holds no tool call
\* the later one is taken
ParseToolCallAnyBlock(c) ==
    IF c.isNone THEN NoCall
    ELSE LET f == FencedStage(c) IN
         IF f.r = "found" THEN f.tc
         ELSE IF f.r = "raise" THEN NoCall
         ELSE IF c.later # NoCall THEN c.later
         ELSE DirectStage(c)

\* agent.py 213-238
ParseToolCall(c) ==
    IF c.isNone THEN NoCall                    \* `in` on None raises, caught at 236
    ELSE LET f == FencedStage(c) IN
         IF f.r = "found" THEN f.tc
         ELSE IF f.r = "raise" THEN NoCall     \* caught at 236: no direct parse
         ELSE DirectStage(c)

\* `if "name" in tool_call` without the test of tool_call itself: None is searched
ClassifyNoTruthTest(t) ==
    IF t.shape \in {"none", "num"} THEN "raise"
    ELSE IF ~t.hasName THEN "final"
    ELSE IF t.shape = "dict" THEN "invoke"
    ELSE "raise"

\* agent.py 273-276: `if tool_call and "name" in tool_call`, then the subscripts
Classify(t) ==
    IF t.shape \in {"none", "falsy"} THEN "final"
    ELSE IF t.shape = "num" THEN "raise"
    ELSE IF ~t.hasName THEN "final"
    ELSE IF t.shape = "dict" THEN "invoke"
    ELSE "raise"

\* what json.loads may make of a text
Decoded ==
    {JInvalid, JObjNoKey, JScalar, JStr(TRUE), JStr(FALSE), JList(TRUE), JList(FALSE),
     JObj(TCDict("x", "empty")), JObj(TCDict("y", "ok")), JObj(TCDictNoName),
     JObj(TCStr(TRUE)), JObj(TCFalsy), JObj(TCNum)}

\* the contents _parse_tool_call is tried on: None, text without a ```json
\* marker, with a marker that is never closed, with a first block and possibly
\* a later block holding {"tool_call": {"name": "x", "parameters": {}}}
ExtractContents ==
    {ContentNone}
    \cup {Text(f, JInvalid, d) : f \in {"none", "open"}, d \in Decoded}
    \cup {LaterFencedCall(b, d, t) : b \in Decoded, d \in Decoded,
                                    t \in {NoCall, TCDict("x", "empty")}}

IdleExt == [pc |-> "idle", content |-> Prose, result |-> NoCall]

\* what the model is made to answer in this model
ModelContents ==
    {Prose, ContentNone,
     FencedCall("t1", "ok"), FencedCall("t1", "bad"), FencedCall(GhostName, "ok"),
     DirectCall("t1", "empty"), FencedCall(Unhashable, "ok"),
     Text("block", JObj(TCStr(TRUE)), JInvalid),
     Text("block", JInvalid, JInvalid), Text("none", JInvalid, JObjNoKey)}

----------------------------------------------------------------------------
(* Transcript.  cls is the message class (SystemMessage, HumanMessage,     *)
(* AIMessage); kind tells what the content is.                             *)

NoResult == [success |-> FALSE, result |-> "none", error |-> "none",
             tool_name |-> "none", ran |-> FALSE, raised |-> FALSE]

Turn(c, k, t, m, r) == [cls |-> c, kind |-> k, text |-> t, content |-> m, result |-> r]
SystemTurn(prompt) == Turn("System", "system", prompt, Prose, NoResult)
UserTurn(m) == Turn("Human", "user", m, Prose, NoResult)
\* AIMessage(content=ai_message), agent.py 282 and 296
ModelTurn(c) == Turn("AI", "model", "ai_message", c, NoResult)
\* HumanMessage(content=result_message), agent.py 284-289
ResultTurn(r) == Turn("Human", "tool_result",
                      IF r.success THEN "result" ELSE "failure", Prose, r)
\* agent.py 301-302: the apology followed by str(e)
ApologyTurn(detail) == Turn("AI", "apology", detail, Prose, NoResult)
\* agent.py 306-307
TimeoutTurn == Turn("AI", "timeout", "too_many_steps", Prose, NoResult)

Last(s) == s[Len(s)]

\* agent.py 250-257: message class to role of the API
RoleOf(cls) ==
    CASE cls = "System" -> "system"
      [] cls = "Human" -> "user"
      [] cls = "AI" -> "assistant"

ApiMessages(hist) ==
    [i \in 1..Len(hist) |->
        [role |-> RoleOf(hist[i].cls), kind |-> hist[i].kind, text |-> hist[i].text,
         content |-> hist[i].content, result |-> hist[i].result]]

----------------------------------------------------------------------------
(* Registry: self.tools, a dict in insertion order *)

Registered(n) == \E i \in 1..Len(tools) : tools[i].name = n
Lookup(n) ==
    IF Registered(n)
    THEN tools[CHOOSE i \in 1..Len(tools) : tools[i].name = n]
    ELSE NoTool

\* agent.py 156-169: one schema per value of the dict, in its order
GetToolsSchema == [i \in 1..Len(tools) |-> [type |-> "function", name |-> tools[i].name]]

\* the operations recorded in lastOp
NoOp == [op |-> "none", fn |-> "none"]
Registration(f) == [op |-> "register", fn |-> f]
Unregistration == [op |-> "unregister", fn |-> "none"]

\* the registry kept as a list: every add_tool appends
AddToolAppends(n, f) ==
    /\ tools' = Append(tools, Tool(n, f))
    /\ lastOp' = [lastOp EXCEPT ![n] = Registration(f)]
    /\ UNCHANGED <<conversation_history, max_iterations, call, system_prompt,
                   endpoint, failedBefore, clearedFrom, lastAnswer>>
    /\ UNCHANGED routeVars

\* agent.py 145-148: self.tools[tool.name] = tool
AddTool(n, f) ==
    /\ tools' = IF Registered(n)
                THEN [i \in 1..Len(tools) |->
                         IF tools[i].name = n THEN Tool(n, f) ELSE tools[i]]
                ELSE Append(tools, Tool(n, f))
    /\ lastOp' = [lastOp EXCEPT ![n] = Registration(f)]
    /\ UNCHANGED <<conversation_history, max_iterations, call, system_prompt,
                   endpoint, failedBefore, clearedFrom, lastAnswer>>
    /\ UNCHANGED routeVars

\* agent.py 150-154
RemoveTool(n) ==
    /\ tools' = SelectSeq(tools, LAMBDA t : t.name # n)
    /\ lastOp' = [lastOp EXCEPT ![n] = Unregistration]
    /\ UNCHANGED <<conversation_history, max_iterations, call, system_prompt,
                   endpoint, failedBefore, clearedFrom, lastAnswer>>
    /\ UNCHANGED routeVars

ToolResult(s, r, e, n, ran) ==
    [success |-> s, result |-> r, error |-> e, tool_name |-> n, ran |-> ran,
     raised |-> FALSE]
\* an exception leaving execute_tool
ToolRaise(n) == [NoResult EXCEPT !.tool_name = n, !.raised = TRUE, !.error = "TypeError"]

\* the handler is a coroutine function that is called with arguments it accepts:
\* execute_tool suspends at `await tool.function(**parameters)`, agent.py 189-190
Suspends(n, ps) ==
    /\ n # Unhashable
    /\ Lookup(n).fn = "async"
    /\ ps \in {"ok", "empty"}

\* the handler's exception leaving execute_tool instead of being converted
HandlerResultPropagates(n, h) ==
    IF h = "returns" THEN ToolResult(TRUE, "value", "none", n, TRUE)
    ELSE [ToolRaise(n) EXCEPT !.ran = TRUE, !.error = "handler_error"]

\* agent.py 190-211: the handler ran; it returned a value or raised
HandlerResult(n, h) ==
    IF h = "returns" THEN ToolResult(TRUE, "value", "none", n, TRUE)
    ELSE ToolResult(FALSE, "none", "handler_error", n, TRUE)

\* execute_tool without the membership test: self.tools[tool_name] raises KeyError
ExecuteToolNoCheck(n, ps, h) ==
    IF n = Unhashable \/ ~Registered(n) THEN ToolRaise(n)
    ELSE IF Lookup(n).fn = "none" THEN ToolResult(TRUE, "executed", "none", n, FALSE)
    ELSE IF ps \in {"notmapping", "bad"}
         THEN ToolResult(FALSE, "none", "type_error", n, FALSE)
    ELSE HandlerResult(n, h)

\* execute_tool without the `if tool.function` test: None is called
ExecuteToolCallsNone(n, ps, h) ==
    IF n = Unhashable THEN ToolRaise(n)
    ELSE IF ~Registered(n) THEN ToolResult(FALSE, "none", "not_found", n, FALSE)
    ELSE IF Lookup(n).fn = "none" \/ ps \in {"notmapping", "bad"}
         THEN ToolResult(FALSE, "none", "type_error", n, FALSE)
    ELSE HandlerResult(n, h)

\* agent.py 171-211; h is what the handler does when it runs
ExecuteTool(n, ps, h) ==
    IF n = Unhashable THEN ToolRaise(n)         \* `in` hashes the name, outside the try
    ELSE IF ~Registered(n) THEN ToolResult(FALSE, "none", "not_found", n, FALSE)
    ELSE IF Lookup(n).fn = "none" THEN ToolResult(TRUE, "executed", "none", n, FALSE)
    ELSE IF ps \in {"notmapping", "bad"}        \* the call itself raises TypeError
         THEN ToolResult(FALSE, "none", "type_error", n, FALSE)
    ELSE HandlerResult(n, h)

HandlerOutcomes == {"returns", "raises"}

\* the parameters execute_tool is given: keyword arguments the handler accepts
\* (ok), none (empty), keyword arguments it does not accept (bad), a value that
\* is not a mapping (notmapping)
ParamKinds == {"ok", "empty", "bad", "notmapping"}

IdleInv == [pc |-> "idle", name |-> "none", params |-> "none", handler |-> "none",
            result |-> NoResult]

----------------------------------------------------------------------------
(* Inference endpoint and the request of agent.py's VLLMClient *)

\* an optional catalog argument: None, or a list (possibly empty)
NoCatalog == [given |-> FALSE, list |-> <<>>]
Catalog(l) == [given |-> TRUE, list |-> l]
Truthy(cat) == cat.given /\ Len(cat.list) > 0

NoRequest == [path |-> "none", messages |-> <<>>, prompt |-> <<>>, hasTools |-> FALSE,
              tools |-> <<>>, tool_choice |-> "omitted"]

\* agent.py 67-76: the payload of chat_completion
ChatCompletionPayload(messages, cat) ==
    [path |-> "/v1/chat/completions", messages |-> messages, prompt |-> <<>>,
     hasTools |-> Truthy(cat),
     tools |-> IF Truthy(cat) THEN cat.list ELSE <<>>,
     tool_choice |-> IF Truthy(cat) THEN "auto" ELSE "omitted"]

\* agent.py 265: tools=self.get_tools_schema() if self.tools else None
AgentCatalog == IF Len(tools) > 0 THEN Catalog(GetToolsSchema) ELSE NoCatalog

\* an answer of the endpoint: a 2xx body with choices (ok) or without
\* (nochoices), an error status with its body (http), no answer (network).
\* content is the message content as the agent parses it; text, hasCalls and
\* calls are the message (or completion text) as the routes read it
GAnswer(k, st, b, c, t, hc, cs) ==
    [kind |-> k, status |-> st, body |-> b, content |-> c, text |-> t,
     hasCalls |-> hc, calls |-> cs]
Answer(k, st, c) == GAnswer(k, st, "", c, "", FALSE, <<>>)
OkAnswers == {Answer("ok", 200, c) : c \in ModelContents}

\* a structured tool call of a model turn: call["id"], call["function"]["name"]
\* and ["arguments"]; shape tells whether the "function" object is there
StructCall(id, nm, args, shape) == [id |-> id, name |-> nm, args |-> args, shape |-> shape]

NoAnswer == GAnswer("none", 0, "", Prose, "", FALSE, <<>>)

\* a message with "tool_calls", as an endpoint given `tools` may answer: with
\* content None, or with text beside the calls
StructuredAnswers ==
    {GAnswer("ok", 200, "", ContentNone, "None", TRUE,
             <<StructCall("c1", "t1", "valid", "ok")>>),
     GAnswer("ok", 200, "", Prose, "answer", TRUE,
             <<StructCall("c1", "t1", "valid", "ok")>>)}
\* a 2xx body without choices, an error status, a connection failure
FailAnswers == {Answer("nochoices", 200, Prose), Answer("http", 500, Prose),
                Answer("network", 0, Prose)}

EndpointPolicies == {"rejects_tools", "any"}

\* what the endpoint may answer to a request
EndpointAnswers(pol, req) ==
    CASE pol = "rejects_tools" ->
            IF req.hasTools THEN {Answer("http", 500, Prose)} ELSE OkAnswers
      [] pol = "any" -> OkAnswers \cup FailAnswers
                        \cup (IF req.hasTools THEN StructuredAnswers ELSE {})

\* str(e) of what chat_completion re-raises, agent.py 87-92
ErrorDetail(ans) ==
    CASE ans.kind = "network" -> "RequestError"
      [] ans.kind = "http" -> "HTTPStatusError"
      [] OTHER -> "KeyError"

----------------------------------------------------------------------------
(* VLLMClient.chat of vllm_client.py: one request, its result *)

NoneText == "None"                  \* content: None
FallbackText == "unable_to_generate"  \* the fixed text of vllm_client.py 141
NoChoice == "none"                  \* tool_choice=None

\* a message dict of the routes
AMsg(r, t, hc, cs, id, nm) ==
    [role |-> r, text |-> t, hasCalls |-> hc, calls |-> cs, tool_call_id |-> id,
     name |-> nm]
SysMsg(t) == AMsg("system", t, FALSE, <<>>, "none", "none")
UsrMsg(t) == AMsg("user", t, FALSE, <<>>, "none", "none")
AsstMsg(t, hc, cs) == AMsg("assistant", t, hc, cs, "none", "none")

\* vllm_client.py 32-36
FilterMessages(msgs) ==
    [i \in 1..Len(msgs) |->
        IF msgs[i].text = NoneText THEN [msgs[i] EXCEPT !.text = ""] ELSE msgs[i]]

\* vllm_client.py 67-78: one line per system, user or assistant message, then
\* the open "Assistant:" line
FlattenPrompt(msgs) ==
    LET kept == SelectSeq(msgs, LAMBDA m : m.role \in {"system", "user", "assistant"})
        label(r) == CASE r = "system" -> "System" [] r = "user" -> "User"
                      [] r = "assistant" -> "Assistant"
    IN  [i \in 1..Len(kept) |-> [label |-> label(kept[i].role), text |-> kept[i].text]]
        \o <<[label |-> "Assistant", text |-> ""]>>

\* `if tools is not None` for `if tools`: an empty catalog is sent
ChatPayloadEmptyCatalog(msgs, cat, choice) ==
    IF cat.given
    THEN [path |-> "/v1/chat/completions", messages |-> FilterMessages(msgs),
          prompt |-> <<>>, hasTools |-> TRUE, tools |-> cat.list,
          tool_choice |-> IF choice # NoChoice THEN choice ELSE "auto"]
    ELSE [path |-> "/v1/completions", messages |-> <<>>,
          prompt |-> FlattenPrompt(FilterMessages(msgs)), hasTools |-> FALSE,
          tools |-> <<>>, tool_choice |-> "omitted"]

\* vllm_client.py 39-47 and 80-85
ChatPayload(msgs, cat, choice) ==
    IF Truthy(cat)
    THEN [path |-> "/v1/chat/completions", messages |-> FilterMessages(msgs),
          prompt |-> <<>>, hasTools |-> TRUE, tools |-> cat.list,
          tool_choice |-> IF choice # NoChoice THEN choice ELSE "auto"]
    ELSE [path |-> "/v1/completions", messages |-> <<>>,
          prompt |-> FlattenPrompt(FilterMessages(msgs)), hasTools |-> FALSE,
          tools |-> <<>>, tool_choice |-> "omitted"]

\* str.strip() of a completion text
Strip(t) == IF t = " answer " THEN "answer" ELSE t

\* what a client call gives its caller: an exception (raised, with its type and
\* what it carries) or a response, with choices[0].message when hasChoices
Raise(ty, st, b, d) ==
    [raised |-> TRUE, etype |-> ty, status |-> st, body |-> b, detail |-> d,
     hasChoices |-> FALSE, text |-> "", hasCalls |-> FALSE, calls |-> <<>>]
Return(hch, t, hc, cs) ==
    [raised |-> FALSE, etype |-> "none", status |-> 0, body |-> "", detail |-> "",
     hasChoices |-> hch, text |-> t, hasCalls |-> hc, calls |-> cs]

\* the chat completions path without the re-raise: the failure is swallowed and
\* the fixed fallback text returned
ChatResultSwallows(req, ans) ==
    IF ans.kind = "ok"
    THEN Return(TRUE, IF req.hasTools THEN ans.text ELSE Strip(ans.text),
                IF req.hasTools THEN ans.hasCalls ELSE TRUE,
                IF req.hasTools THEN ans.calls ELSE <<>>)
    ELSE Return(TRUE, FallbackText, FALSE, <<>>)

\* the completions path raising RuntimeError without the response body
ChatResultNoBody(req, ans) ==
    IF req.hasTools
    THEN CASE ans.kind = "ok" -> Return(TRUE, ans.text, ans.hasCalls, ans.calls)
           [] ans.kind = "nochoices" -> Return(FALSE, "", FALSE, <<>>)
           [] ans.kind = "http" -> Raise("HTTPStatusError", ans.status, ans.body, "")
           [] ans.kind = "network" -> Raise("RequestError", 0, "", "connect_failed")
    ELSE CASE ans.kind = "ok" -> Return(TRUE, Strip(ans.text), TRUE, <<>>)
           [] ans.kind = "nochoices" -> Return(TRUE, FallbackText, FALSE, <<>>)
           [] ans.kind = "http" -> Raise("RuntimeError", ans.status, "", "")
           [] ans.kind = "network" -> Raise("RuntimeError", 0, "", "connect_failed")

\* vllm_client.py 51-63 (with tools) and 89-142 (without)
ChatResult(req, ans) ==
    IF req.hasTools
    THEN CASE ans.kind = "ok" -> Return(TRUE, ans.text, ans.hasCalls, ans.calls)
           [] ans.kind = "nochoices" -> Return(FALSE, "", FALSE, <<>>)
           [] ans.kind = "http" -> Raise("HTTPStatusError", ans.status, ans.body, "")
           [] ans.kind = "network" -> Raise("RequestError", 0, "", "connect_failed")
    ELSE CASE ans.kind = "ok" -> Return(TRUE, Strip(ans.text), TRUE, <<>>)
           [] ans.kind = "nochoices" -> Return(TRUE, FallbackText, FALSE, <<>>)
           [] ans.kind = "http" -> Raise("RuntimeError", ans.status, ans.body, "")
           [] ans.kind = "network" -> Raise("RuntimeError", 0, "", "connect_failed")

\* agent.py 78-92: the response, or the httpx exception re-raised
ChatCompletionResult(req, ans) ==
    CASE ans.kind = "ok" -> Return(TRUE, ans.text, ans.hasCalls, ans.calls)
      [] ans.kind = "nochoices" -> Return(FALSE, "", FALSE, <<>>)
      [] ans.kind = "http" -> Raise("HTTPStatusError", ans.status, ans.body, "")
      [] ans.kind = "network" -> Raise("RequestError", 0, "", "connect_failed")

\* the tool calls a model turn is made to carry, and the lists of them
CallPool ==
    {StructCall("c1", "get_current_time", "valid", "ok"),
     StructCall("c2", "calculate", "malformed", "ok"),
     StructCall("absent", "nosuch", "valid", "ok"),
     StructCall("c2", "get_current_time", "valid", "nofunction"),
     StructCall("absent", "calculate", "notstring", "ok"),
     StructCall("c1", "close", "missing", "ok"),
     StructCall("c2", "get_all_tools", "emptystr", "ok"),
     StructCall("c1", "get_current_time", "emptystr", "ok"),
     StructCall("c2", "calculate", "valid", "notdict")}
CallLists == UNION {[1..n -> CallPool] : n \in 0..MaxCalls}

\* a chat message with text, with tool calls, with both; a completion text
ChatOkAnswers ==
    {GAnswer("ok", 200, "", Prose, "answer", FALSE, <<>>),
     GAnswer("ok", 200, "", ContentNone, NoneText, FALSE, <<>>)}
    \cup {GAnswer("ok", 200, "", ContentNone, NoneText, TRUE, cs) : cs \in CallLists}
    \cup {GAnswer("ok", 200, "", Prose, "answer", TRUE,
                  <<StructCall("c1", "get_current_time", "valid", "ok")>>),
          GAnswer("ok", 200, "", Prose, "answer", TRUE, <<>>)}
CompletionOkAnswers ==
    {GAnswer("ok", 200, "", Prose, "answer", FALSE, <<>>),
     GAnswer("ok", 200, "", Prose, " answer ", FALSE, <<>>)}
GwOkAnswers(rq) ==
    IF rq.path = "/v1/chat/completions" THEN ChatOkAnswers ELSE CompletionOkAnswers
GwFailAnswers ==
    {GAnswer("nochoices", 200, "", Prose, "", FALSE, <<>>),
     GAnswer("http", 500, "overloaded", Prose, "", FALSE, <<>>),
     GAnswer("http", 404, "no_route", Prose, "", FALSE, <<>>),
     GAnswer("network", 0, "", Prose, "", FALSE, <<>>)}

\* what the endpoint may answer to a request of a route or of a direct call
GwEndpointAnswers(pol, req) ==
    CASE pol = "rejects_tools" ->
            IF req.hasTools
            THEN {GAnswer("http", 500, "overloaded", Prose, "", FALSE, <<>>)}
            ELSE GwOkAnswers(req)
      [] pol = "any" -> GwOkAnswers(req) \cup GwFailAnswers

GwAllAnswers == ChatOkAnswers \cup CompletionOkAnswers \cup GwFailAnswers

IdleGw == [pc |-> "idle", client |-> "none", source |-> "none", cat |-> NoCatalog,
           choice |-> NoChoice, request |-> NoRequest, posts |-> 0,
           answer |-> NoAnswer, result |-> Return(FALSE, "", FALSE, <<>>)]

----------------------------------------------------------------------------
(* FunctionCallAgent.chat, agent.py 240-308.  A caller is idle, suspended   *)
(* in chat_completion (await_gateway), suspended in a handler (await_tool) *)
(* or has returned (done).                                                 *)

IdleCall == [pc |-> "idle", iterations |-> 0, request |-> NoRequest, pending |-> NoCall,
             pendingContent |-> Prose, gwCalls |-> 0, invocations |-> 0, ran |-> 0,
             startLen |-> 0, message |-> "none", outcome |-> "none",
             returned |-> TimeoutTurn, hung |-> FALSE]

\* the loop with `<=` for `<`: one iteration too many
IterateOffByOne(p, hist, c) ==
    IF c.iterations <= max_iterations
    THEN /\ conversation_history' = hist
         /\ call' = [call EXCEPT ![p] =
               [c EXCEPT !.pc = "await_gateway",
                         !.iterations = c.iterations + 1,
                         !.gwCalls = c.gwCalls + 1,
                         !.request = ChatCompletionPayload(ApiMessages(hist), AgentCatalog)]]
    ELSE /\ conversation_history' = Append(hist, TimeoutTurn)
         /\ call' = [call EXCEPT ![p] =
               [c EXCEPT !.pc = "done", !.outcome = "aborted", !.returned = TimeoutTurn]]

\* agent.py 246-266 and 305-308: the loop test, then either the next request or
\* the "too many steps" turn; hist is the transcript and c the caller's locals
Iterate(p, hist, c) ==
    IF c.iterations < max_iterations
    THEN /\ conversation_history' = hist
         /\ call' = [call EXCEPT ![p] =
               [c EXCEPT !.pc = "await_gateway",
                         !.iterations = c.iterations + 1,
                         !.gwCalls = c.gwCalls + 1,
                         !.request = ChatCompletionPayload(ApiMessages(hist), AgentCatalog)]]
    ELSE /\ conversation_history' = Append(hist, TimeoutTurn)
         /\ call' = [call EXCEPT ![p] =
               [c EXCEPT !.pc = "done", !.outcome = "aborted", !.returned = TimeoutTurn]]

\* agent.py 243-245
ChatStart(p, m) ==
    /\ call[p].pc = "idle"
    /\ Len(conversation_history) <= MaxTurns
    /\ Iterate(p, Append(conversation_history, UserTurn(m)),
               [IdleCall EXCEPT !.startLen = Len(conversation_history), !.message = m])
    /\ clearedFrom' = 0
    /\ UNCHANGED <<tools, lastOp, lastAnswer, max_iterations, system_prompt, endpoint,
                   failedBefore>>
    /\ UNCHANGED routeVars

\* the except branch putting the apology in the place of the last turn
FailReplacesLast(p, why, detail) ==
    /\ conversation_history' =
          Append(SubSeq(conversation_history, 1, Len(conversation_history) - 1),
                 ApologyTurn(detail))
    /\ call' = [call EXCEPT ![p].pc = "done", ![p].outcome = why,
                            ![p].returned = ApologyTurn(detail)]
    /\ failedBefore' = TRUE

\* the except branch returning the apology without recording it
FailSilent(p, why, detail) ==
    /\ conversation_history' = conversation_history
    /\ call' = [call EXCEPT ![p].pc = "done", ![p].outcome = why,
                            ![p].returned = ApologyTurn(detail)]
    /\ failedBefore' = TRUE

\* agent.py 299-303: the except branch
Fail(p, why, detail) ==
    /\ conversation_history' = Append(conversation_history, ApologyTurn(detail))
    /\ call' = [call EXCEPT ![p].pc = "done", ![p].outcome = why,
                            ![p].returned = ApologyTurn(detail)]
    /\ failedBefore' = TRUE

\* a failed invocation ending the call: both turns recorded, then the return
FoldEndsOnFailure(p, content, r) ==
    /\ IF r.success
       THEN Iterate(p, Append(Append(conversation_history, ModelTurn(content)),
                              ResultTurn(r)),
                    [call[p] EXCEPT !.invocations = @ + 1,
                                    !.ran = @ + (IF r.ran THEN 1 ELSE 0),
                                    !.pending = NoCall, !.pendingContent = Prose])
       ELSE /\ conversation_history' =
                  Append(Append(conversation_history, ModelTurn(content)), ResultTurn(r))
            /\ call' = [call EXCEPT ![p].pc = "done", ![p].outcome = "final",
                                    ![p].returned = ResultTurn(r)]
    /\ UNCHANGED failedBefore

\* the Assistant turn recorded and the result of the invocation left out
FoldWithoutResult(p, content, r) ==
    /\ Iterate(p, Append(conversation_history, ModelTurn(content)),
               [call[p] EXCEPT !.invocations = @ + 1,
                               !.ran = @ + (IF r.ran THEN 1 ELSE 0),
                               !.pending = NoCall, !.pendingContent = Prose])
    /\ UNCHANGED failedBefore

\* agent.py 282-292: both turns of one invocation, then the next iteration
Fold(p, content, r) ==
    /\ Iterate(p, Append(Append(conversation_history, ModelTurn(content)), ResultTurn(r)),
               [call[p] EXCEPT !.invocations = @ + 1,
                               !.ran = @ + (IF r.ran THEN 1 ELSE 0),
                               !.pending = NoCall, !.pendingContent = Prose])
    /\ UNCHANGED failedBefore

\* the final answer recorded, and the loop continued instead of returning
FinishContinues(p, content) ==
    /\ Iterate(p, Append(conversation_history, ModelTurn(content)), call[p])
    /\ UNCHANGED failedBefore

\* the final answer returned without being recorded
FinishUnrecorded(p, content) ==
    /\ conversation_history' = conversation_history
    /\ call' = [call EXCEPT ![p].pc = "done", ![p].outcome = "final",
                            ![p].returned = ModelTurn(content)]
    /\ UNCHANGED failedBefore

\* agent.py 294-297
Finish(p, content) ==
    /\ conversation_history' = Append(conversation_history, ModelTurn(content))
    /\ call' = [call EXCEPT ![p].pc = "done", ![p].outcome = "final",
                            ![p].returned = ModelTurn(content)]
    /\ UNCHANGED failedBefore

\* agent.py 261-279: chat_completion returns or raises; the answer is interpreted
\* up to the first suspension of execute_tool
GatewayReturns(p, ans, h) ==
    /\ call[p].pc = "await_gateway"
    /\ ans \in EndpointAnswers(endpoint, call[p].request)
    /\ LET tc == ParseToolCall(ans.content)
           cl == Classify(tc)
       IN  CASE ans.kind \in {"http", "network"} -> Fail(p, "gateway_error", ErrorDetail(ans))
             [] ans.kind = "nochoices" -> Fail(p, "processing_error", ErrorDetail(ans))
             [] ans.kind = "ok" /\ cl = "raise" -> Fail(p, "processing_error", "TypeError")
             [] ans.kind = "ok" /\ cl = "final" ->
                    IF ans.content.isNone
                    THEN Fail(p, "processing_error", "ValidationError")
                    ELSE Finish(p, ans.content)
             [] ans.kind = "ok" /\ cl = "invoke" ->
                    IF Suspends(tc.name, tc.params)
                    THEN /\ call' = [call EXCEPT ![p].pc = "await_tool",
                                                 ![p].pending = tc,
                                                 ![p].pendingContent = ans.content]
                         /\ UNCHANGED <<conversation_history, failedBefore>>
                    ELSE LET r == ExecuteTool(tc.name, tc.params, h) IN
                         IF r.raised
                         THEN Fail(p, "processing_error", r.error)
                         ELSE Fold(p, ans.content, r)
    /\ clearedFrom' = 0
    /\ lastAnswer' = [lastAnswer EXCEPT ![p] = ans]
    /\ UNCHANGED <<tools, lastOp, max_iterations, system_prompt, endpoint>>
    /\ UNCHANGED routeVars

\* agent.py 190 and 196-211: the awaited handler returns or raises
ToolReturns(p, h) ==
    /\ call[p].pc = "await_tool"
    /\ ~call[p].hung
    /\ LET r == HandlerResult(call[p].pending.name, h) IN
       IF r.raised THEN Fail(p, "processing_error", r.error)
       ELSE Fold(p, call[p].pendingContent, r)
    /\ clearedFrom' = 0
    /\ UNCHANGED <<tools, lastOp, lastAnswer, max_iterations, system_prompt, endpoint>>
    /\ UNCHANGED routeVars

\* agent.py 190: the awaited coroutine is one that never completes (a
\* subprocess that does not exit, mcp_tools.py 163); execute_tool has no
\* asyncio.wait_for around it, so nothing resumes chat()
HandlerHangs(p) ==
    /\ call[p].pc = "await_tool"
    /\ ~call[p].hung
    /\ call' = [call EXCEPT ![p].hung = TRUE]
    /\ UNCHANGED <<tools, lastOp, lastAnswer, conversation_history, max_iterations,
                   system_prompt, endpoint, failedBefore, clearedFrom>>
    /\ UNCHANGED routeVars

\* the caller takes the returned text
ChatReturn(p) ==
    /\ call[p].pc = "done"
    /\ call' = [call EXCEPT ![p] = IdleCall]
    /\ lastAnswer' = [lastAnswer EXCEPT ![p] = NoAnswer]
    /\ UNCHANGED <<tools, lastOp, conversation_history, max_iterations, system_prompt,
                   endpoint, failedBefore, clearedFrom>>
    /\ UNCHANGED routeVars

\* the transcript emptied, System turn included
ClearHistoryEmpty ==
    /\ conversation_history' = <<>>
    /\ clearedFrom' = Len(conversation_history)
    /\ failedBefore' = FALSE
    /\ UNCHANGED <<tools, lastOp, lastAnswer, max_iterations, call, system_prompt, endpoint>>
    /\ UNCHANGED routeVars

\* the transcript reset to the default prompt instead of self.system_prompt
ClearHistoryDefaultPrompt ==
    /\ conversation_history' = <<SystemTurn("default_prompt")>>
    /\ clearedFrom' = Len(conversation_history)
    /\ failedBefore' = FALSE
    /\ UNCHANGED <<tools, lastOp, lastAnswer, max_iterations, call, system_prompt, endpoint>>
    /\ UNCHANGED routeVars

\* agent.py 310-313
ClearHistory ==
    /\ conversation_history' = <<SystemTurn(system_prompt)>>
    /\ clearedFrom' = Len(conversation_history)
    /\ failedBefore' = FALSE
    /\ UNCHANGED <<tools, lastOp, lastAnswer, max_iterations, call, system_prompt, endpoint>>
    /\ UNCHANGED routeVars

----------------------------------------------------------------------------
(* /api/chat, app.py 140-241.  A request is idle, suspended in a gateway    *)
(* call (await_oss, await_first, await_followup), between two tool calls   *)
(* (dispatch), suspended in a handler (await_tool) or answered (done).     *)

IdleReq == [pc |-> "idle", message |-> "none", messages |-> <<>>, choice |-> NoChoice,
            calls |-> <<>>, i |-> 0, request |-> NoRequest, gwCalls |-> 0, ran |-> 0,
            ranIdx |-> {}, raisedIdx |-> {}, status |-> 0, response |-> "",
            previous |-> "none"]      \* the message of the request served before

\* app.py 126-137
LooksLikeTimeQuery(m) == m = "what time is it"

\* config.py 24: the default of Settings.vllm_model
DefaultModel == "openai/gpt-oss-20b"

\* identifiers the service may be configured with (VLLM_MODEL)
ModelIds == {DefaultModel, "GPT-OSS-120B", "meta-llama/Llama-3-8B"}

\* str.lower() of a model identifier
Lower(id) ==
    CASE id = "GPT-OSS-120B" -> "gpt-oss-120b"
      [] id = "meta-llama/Llama-3-8B" -> "meta-llama/llama-3-8b"
      [] OTHER -> id

\* "gpt-oss" in id
HasGptOss(id) == id \in {"openai/gpt-oss-20b", "gpt-oss-120b"}

\* app.py 146: "gpt-oss" in vllm_client.model.lower()
IsGptOss(id) == HasGptOss(Lower(id))

\* MCPTools.get_schemas(), called at app.py 173 and 290: the catalog of the
\* registered capabilities in protocol shape
GetSchemas ==
    <<[type |-> "function", name |-> "get_current_time"],
      [type |-> "function", name |-> "calculate"]>>

\* mcp_tools.py 252-272: the names of the Tools returned by get_all_tools(), of
\* which the model keeps two
GetAllToolNames == {"get_current_time", "calculate"}

\* app.py 199: getattr(mcp_tools, name, None) on the attributes of MCPTools
\* (mcp_tools.py 24-252)
Getattr(nm) ==
    CASE nm \in {"get_current_time", "calculate"} -> "tool_coroutine"
      [] nm = "close" -> "coroutine"
      [] nm = "get_all_tools" -> "function"
      [] nm \in {"settings", "http_client"} -> "attribute"
      [] OTHER -> "absent"

\* text that does not decode taken for "{}", as an empty string is
LoadArgsLenient(a) ==
    CASE a \in {"missing", "emptystr", "malformed"} -> "dict"
      [] a = "valid" -> "dict"
      [] a = "notmapping" -> "nondict"
      [] a = "notstring" -> "TypeError"

\* app.py 184-189: json.loads(call["function"].get("arguments") or "{}").  The
\* arguments are missing (or None), the empty string, the text of a JSON object
\* (valid), of another JSON value (notmapping), text that is not JSON
\* (malformed), or not a string at all (notstring)
LoadArgs(a) ==
    CASE a \in {"missing", "emptystr"} -> "dict"
      [] a = "valid" -> "dict"
      [] a = "notmapping" -> "nondict"
      [] a = "malformed" -> "JSONDecodeError"
      [] a = "notstring" -> "TypeError"

\* app.py 185 and 229: call.get("id", <default>)
CallId(c, default) == IF c.id = "absent" THEN default ELSE c.id

ToolMsg(id, nm, t) == AMsg("tool", t, FALSE, <<>>, id, nm)

\* the result of a tool call put before the results already there
FoldResultFirst(msgs, tm) ==
    IF Len(msgs) <= 3 THEN Append(msgs, tm)
    ELSE SubSeq(msgs, 1, 3) \o <<tm>> \o SubSeq(msgs, 4, Len(msgs))

\* app.py 192-196, 217-222, 227-232: messages.append({"role": "tool", ...})
FoldResult(msgs, tm) == Append(msgs, tm)

\* the model's turn not recorded before its results
FoldAssistantSkipped(msgs, res) == msgs

\* app.py 180: messages.append(msg)
FoldAssistant(msgs, res) == Append(msgs, AsstMsg(res.text, res.hasCalls, res.calls))

\* app.py 239-241 (and 156-158): HTTPException(500)
Http500(r) ==
    chatReq' = [chatReq EXCEPT ![r].pc = "done", ![r].status = 500, ![r].response = ""]

\* ChatResponse(response=text): a str is required
Respond(r, text) ==
    IF text = NoneText
    THEN Http500(r)
    ELSE chatReq' = [chatReq EXCEPT ![r].pc = "done", ![r].status = 200, ![r].response = text]

\* the calls of the turn, by position, whose handler has been called
Handled(r, ran) ==
    IF ran > chatReq[r].ran THEN chatReq[r].ranIdx \cup {chatReq[r].i} ELSE chatReq[r].ranIdx

\* the calls of the turn, by position, whose handler raised while running
HandlerRaised(r, raised) ==
    IF raised THEN chatReq[r].raisedIdx \cup {chatReq[r].i} ELSE chatReq[r].raisedIdx

\* app.py 181 and 233-234: the next tool call, or after the last one the
\* follow-up request, sent without catalog
Advance(r, msgs, ran, raised) ==
    IF chatReq[r].i < Len(chatReq[r].calls)
    THEN chatReq' = [chatReq EXCEPT ![r].pc = "dispatch", ![r].i = @ + 1, ![r].messages = msgs,
                            ![r].ran = ran, ![r].ranIdx = Handled(r, ran),
                            ![r].raisedIdx = HandlerRaised(r, raised)]
    ELSE chatReq' = [chatReq EXCEPT ![r].pc = "await_followup", ![r].messages = msgs,
                            ![r].ran = ran, ![r].ranIdx = Handled(r, ran),
                            ![r].raisedIdx = HandlerRaised(r, raised),
                            ![r].gwCalls = @ + 1,
                            ![r].request = ChatPayload(msgs, NoCatalog, NoChoice)]

\* the user message of the request served before kept in the transcript of
\* the next one, as a handler with a module-level history would
AppChatStartKeepsPrevious(r, m) ==
    /\ chatReq[r].pc = "idle"
    /\ LET kept == IF chatReq[r].previous = "none" THEN <<>>
                   ELSE <<UsrMsg(chatReq[r].previous)>>
       IN
       IF IsGptOss(model)
       THEN LET msgs == <<SysMsg("system_prompt_tools_in_prose")>> \o kept \o <<UsrMsg(m)>> IN
            chatReq' = [chatReq EXCEPT ![r] =
                      [IdleReq EXCEPT !.pc = "await_oss", !.message = m, !.messages = msgs,
                                      !.previous = chatReq[r].previous,
                                      !.gwCalls = 1,
                                      !.request = ChatPayload(msgs, NoCatalog, NoChoice)]]
       ELSE LET msgs == <<SysMsg("system_prompt")>> \o kept \o <<UsrMsg(m)>>
                choice == IF LooksLikeTimeQuery(m) THEN "get_current_time" ELSE NoChoice
            IN  chatReq' = [chatReq EXCEPT ![r] =
                      [IdleReq EXCEPT !.pc = "await_first", !.message = m, !.messages = msgs,
                                      !.previous = chatReq[r].previous,
                                      !.choice = choice, !.gwCalls = 1,
                                      !.request = ChatPayload(msgs, Catalog(GetSchemas),
                                                              choice)]]
    /\ UNCHANGED <<agentVars, gw, model, inv, ext>>

\* the handler without the gpt-oss branch: every model is sent the catalog
AppChatStartAlwaysStandard(r, m) ==
    /\ chatReq[r].pc = "idle"
    /\ LET msgs == <<SysMsg("system_prompt"), UsrMsg(m)>>
           choice == IF LooksLikeTimeQuery(m) THEN "get_current_time" ELSE NoChoice
       IN  chatReq' = [chatReq EXCEPT ![r] =
                 [IdleReq EXCEPT !.pc = "await_first", !.message = m, !.messages = msgs,
                                 !.previous = chatReq[r].previous,
                                 !.choice = choice, !.gwCalls = 1,
                                 !.request = ChatPayload(msgs, Catalog(GetSchemas), choice)]]
    /\ UNCHANGED <<agentVars, gw, model, inv, ext>>

\* `messages` kept in one module-level list instead of a local of the handler:
\* the request's messages follow those of a request still being served
AppChatStartSharedList(r, m) ==
    /\ chatReq[r].pc = "idle"
    /\ LET active == {q \in DOMAIN chatReq : chatReq[q].pc # "idle"}
           shared == IF active = {} THEN <<>>
                     ELSE chatReq[CHOOSE q \in active : TRUE].messages
       IN
       IF IsGptOss(model)
       THEN LET msgs == shared \o <<SysMsg("system_prompt_tools_in_prose"), UsrMsg(m)>> IN
            chatReq' = [chatReq EXCEPT ![r] =
                      [IdleReq EXCEPT !.pc = "await_oss", !.message = m, !.messages = msgs,
                                      !.previous = chatReq[r].previous,
                                      !.gwCalls = 1,
                                      !.request = ChatPayload(msgs, NoCatalog, NoChoice)]]
       ELSE LET msgs == shared \o <<SysMsg("system_prompt"), UsrMsg(m)>>
                choice == IF LooksLikeTimeQuery(m) THEN "get_current_time" ELSE NoChoice
            IN  chatReq' = [chatReq EXCEPT ![r] =
                      [IdleReq EXCEPT !.pc = "await_first", !.message = m, !.messages = msgs,
                                      !.previous = chatReq[r].previous,
                                      !.choice = choice, !.gwCalls = 1,
                                      !.request = ChatPayload(msgs, Catalog(GetSchemas),
                                                              choice)]]
    /\ UNCHANGED <<agentVars, gw, model, inv, ext>>

\* app.py 140-175 up to the first POST
AppChatStart(r, m) ==
    /\ chatReq[r].pc = "idle"
    /\ IF IsGptOss(model)
       THEN LET msgs == <<SysMsg("system_prompt_tools_in_prose"), UsrMsg(m)>> IN
            chatReq' = [chatReq EXCEPT ![r] =
                      [IdleReq EXCEPT !.pc = "await_oss", !.message = m, !.messages = msgs,
                                      !.previous = chatReq[r].previous,
                                      !.gwCalls = 1,
                                      !.request = ChatPayload(msgs, NoCatalog, NoChoice)]]
       ELSE LET msgs == <<SysMsg("system_prompt"), UsrMsg(m)>>
                choice == IF LooksLikeTimeQuery(m) THEN "get_current_time" ELSE NoChoice
            IN  chatReq' = [chatReq EXCEPT ![r] =
                      [IdleReq EXCEPT !.pc = "await_first", !.message = m, !.messages = msgs,
                                      !.previous = chatReq[r].previous,
                                      !.choice = choice, !.gwCalls = 1,
                                      !.request = ChatPayload(msgs, Catalog(GetSchemas),
                                                              choice)]]
    /\ UNCHANGED <<agentVars, gw, model, inv, ext>>

\* app.py 153-158
AppOssReturns(r, ans) ==
    /\ chatReq[r].pc = "await_oss"
    /\ ans \in GwEndpointAnswers(endpoint, chatReq[r].request)
    /\ LET res == ChatResult(chatReq[r].request, ans) IN
       IF res.raised \/ ~res.hasChoices THEN Http500(r) ELSE Respond(r, res.text)
    /\ UNCHANGED <<agentVars, gw, model, inv, ext>>

\* app.py 171-181 and 237-241
AppFirstReturns(r, ans) ==
    /\ chatReq[r].pc = "await_first"
    /\ ans \in GwEndpointAnswers(endpoint, chatReq[r].request)
    /\ LET res == ChatResult(chatReq[r].request, ans) IN
       IF res.raised \/ ~res.hasChoices THEN Http500(r)
       ELSE IF ~res.hasCalls THEN Respond(r, res.text)
       ELSE LET msgs == FoldAssistant(chatReq[r].messages, res) IN
            IF Len(res.calls) = 0
            THEN chatReq' = [chatReq EXCEPT ![r].pc = "await_followup", ![r].messages = msgs,
                                    ![r].gwCalls = @ + 1,
                                    ![r].request = ChatPayload(msgs, NoCatalog, NoChoice)]
            ELSE chatReq' = [chatReq EXCEPT ![r].pc = "dispatch", ![r].messages = msgs,
                                    ![r].calls = res.calls, ![r].i = 1]
    /\ UNCHANGED <<agentVars, gw, model, inv, ext>>

\* app.py 182-232: one tool call, up to the await of a coroutine handler
AppDispatch(r) ==
    /\ chatReq[r].pc = "dispatch"
    /\ LET c == chatReq[r].calls[chatReq[r].i]
           msgs == chatReq[r].messages
           failed == ToolMsg(CallId(c, "error"),
                             IF c.shape = "nofunction" THEN "unknown" ELSE c.name,
                             "Tool call processing failed")
       IN  CASE c.shape = "notdict" -> Http500(r)      \* call.get raises in the handler at 229
             [] c.shape = "nofunction" -> Advance(r, FoldResult(msgs, failed), chatReq[r].ran, FALSE)
             [] c.shape = "ok" /\ LoadArgs(c.args) = "JSONDecodeError" ->
                    Advance(r, FoldResult(msgs, ToolMsg(CallId(c, "unknown"), "none",
                                                        "Invalid JSON arguments")),
                            chatReq[r].ran, FALSE)
             [] c.shape = "ok" /\ LoadArgs(c.args) = "TypeError" ->
                    Advance(r, FoldResult(msgs, failed), chatReq[r].ran, FALSE)
             [] c.shape = "ok" /\ LoadArgs(c.args) \in {"dict", "nondict"} ->
                    CASE Getattr(c.name) = "absent" ->
                            Advance(r, FoldResult(msgs, ToolMsg(CallId(c, "unknown"), c.name,
                                                                "Unknown tool")),
                                    chatReq[r].ran, FALSE)
                      [] Getattr(c.name) = "attribute" \/ LoadArgs(c.args) = "nondict" ->
                            Advance(r, FoldResult(msgs, ToolMsg(CallId(c, "unknown"), c.name,
                                                                "Tool execution failed")),
                                    chatReq[r].ran, FALSE)
                      [] Getattr(c.name) = "function" ->
                            Advance(r, FoldResult(msgs, ToolMsg(CallId(c, "unknown"), c.name,
                                                                "result")),
                                    chatReq[r].ran + 1, FALSE)
                      [] OTHER -> chatReq' = [chatReq EXCEPT ![r].pc = "await_tool"]
    /\ UNCHANGED <<agentVars, gw, model, inv, ext>>

\* app.py 205-222: the awaited handler returns or raises
AppToolReturns(r, h) ==
    /\ chatReq[r].pc = "await_tool"
    /\ LET c == chatReq[r].calls[chatReq[r].i] IN
       Advance(r, FoldResult(chatReq[r].messages,
                             ToolMsg(CallId(c, "unknown"), c.name,
                                     IF h = "returns" THEN "result"
                                     ELSE "Tool execution failed")),
               chatReq[r].ran + 1, h = "raises")
    /\ UNCHANGED <<agentVars, gw, model, inv, ext>>

\* the follow-up turn treated as the first one is: a turn with the "tool_calls"
\* key is recorded and followed by one more request
AppFollowupReturnsAgain(r, ans) ==
    /\ chatReq[r].pc = "await_followup"
    /\ ans \in GwEndpointAnswers(endpoint, chatReq[r].request)
    /\ LET res == ChatResult(chatReq[r].request, ans) IN
       IF res.raised \/ ~res.hasChoices THEN Http500(r)
       ELSE IF res.hasCalls /\ chatReq[r].gwCalls < 3
       THEN LET msgs == FoldAssistant(chatReq[r].messages, res) IN
            chatReq' = [chatReq EXCEPT ![r].messages = msgs, ![r].gwCalls = @ + 1,
                                    ![r].request = ChatPayload(msgs, NoCatalog, NoChoice)]
       ELSE Respond(r, res.text)
    /\ UNCHANGED <<agentVars, gw, model, inv, ext>>

\* app.py 234-236
AppFollowupReturns(r, ans) ==
    /\ chatReq[r].pc = "await_followup"
    /\ ans \in GwEndpointAnswers(endpoint, chatReq[r].request)
    /\ LET res == ChatResult(chatReq[r].request, ans) IN
       IF res.raised \/ ~res.hasChoices THEN Http500(r) ELSE Respond(r, res.text)
    /\ UNCHANGED <<agentVars, gw, model, inv, ext>>

\* the response is sent; the locals are gone
AppRespond(r) ==
    /\ chatReq[r].pc = "done"
    /\ chatReq' = [chatReq EXCEPT ![r] = [IdleReq EXCEPT !.previous = chatReq[r].message]]
    /\ UNCHANGED <<agentVars, gw, model, inv, ext>>

NoRequestActive == \A r \in Requests : chatReq[r].pc = "idle"

----------------------------------------------------------------------------
(* The agent used by one caller at a time: an operation starts when no     *)
(* chat() is in progress.                                                  *)

Quiet == \A p \in Callers : call[p].pc = "idle"

\* agent.py 112-143
Init ==
    /\ tools = <<>>
    /\ lastOp = [n \in ToolNames |-> NoOp]
    /\ lastAnswer = [p \in Callers |-> NoAnswer]
    /\ system_prompt \in SystemPrompts
    /\ conversation_history = <<SystemTurn(system_prompt)>>
    /\ max_iterations \in 0..MaxIterations
    /\ call = [p \in Callers |-> IdleCall]
    /\ endpoint \in EndpointPolicies
    /\ failedBefore = FALSE
    /\ clearedFrom = 0
    /\ gw = IdleGw
    /\ inv = IdleInv
    /\ ext = IdleExt
    /\ model = DefaultModel
    /\ chatReq = [r \in Requests |-> IdleReq]

SeqChatStart(p, m) == Quiet /\ ChatStart(p, m)
SeqClearHistory == Quiet /\ ClearHistory
SeqAddTool(n, f) == Quiet /\ AddTool(n, f)
SeqRemoveTool(n) == Quiet /\ RemoveTool(n)

Next ==
    \/ \E p \in SeqCallers, m \in UserMessages : SeqChatStart(p, m)
    \/ \E p \in SeqCallers, ans \in OkAnswers \cup FailAnswers \cup StructuredAnswers,
             h \in HandlerOutcomes :
          GatewayReturns(p, ans, h)
    \/ \E p \in SeqCallers, h \in HandlerOutcomes : ToolReturns(p, h)
    \/ \E p \in SeqCallers : ChatReturn(p)
    \/ SeqClearHistory
    \/ \E n \in LoopToolNames, f \in HandlerKinds : SeqAddTool(n, f)
    \/ \E n \in LoopToolNames : SeqRemoveTool(n)

Spec == Init /\ [][Next]_vars

----------------------------------------------------------------------------
(* One agent used by two coroutines: chat() takes no lock, so a second     *)
(* chat() may start while the first is suspended in chat_completion or in  *)
(* a handler.                                                              *)

ConcAnswersOfLoop ==
    {Answer("ok", 200, Prose), Answer("ok", 200, FencedCall("t1", "ok")),
     Answer("http", 500, Prose)}

\* a call is started while the transcript is shorter than MaxTurns
ConcChatStart(p, m) == Len(conversation_history) < MaxTurns /\ ChatStart(p, m)

NextConcurrent ==
    \/ \E p \in Callers, m \in UserMessages : ConcChatStart(p, m)
    \/ \E p \in Callers, ans \in ConcAnswersOfLoop, h \in HandlerOutcomes :
          GatewayReturns(p, ans, h)
    \/ \E p \in Callers, h \in HandlerOutcomes : ToolReturns(p, h)
    \/ \E p \in Callers : ChatReturn(p)
    \/ \E n \in LoopToolNames, f \in {"async"} : SeqAddTool(n, f)

SpecConcurrent == Init /\ [][NextConcurrent]_vars

----------------------------------------------------------------------------
(* The loop with handlers that may never complete.  The gateway call always *)
(* returns or raises (httpx.AsyncClient(timeout=60.0), agent.py 57), a     *)
(* handler that is not hung completes, and the caller takes the answer.   *)

GatewayStep == \E p \in SeqCallers, ans \in ConcAnswersOfLoop, h \in HandlerOutcomes :
                  GatewayReturns(p, ans, h)
HandlerStep == \E p \in SeqCallers, h \in HandlerOutcomes : ToolReturns(p, h)
ReturnStep == \E p \in SeqCallers : ChatReturn(p)

NextDeadline ==
    \/ \E p \in SeqCallers, m \in UserMessages : SeqChatStart(p, m)
    \/ GatewayStep
    \/ HandlerStep
    \/ \E p \in SeqCallers : HandlerHangs(p)
    \/ ReturnStep
    \/ \E n \in LoopToolNames, f \in {"async"} : SeqAddTool(n, f)

SpecDeadline ==
    /\ Init
    /\ [][NextDeadline]_vars
    /\ WF_vars(GatewayStep)
    /\ WF_vars(HandlerStep)
    /\ WF_vars(ReturnStep)

----------------------------------------------------------------------------
(* The gateway clients called directly: VLLMClient.chat of vllm_client.py   *)
(* with any arguments, VLLMClient.chat_completion of agent.py with any     *)
(* catalog or with the one chat() passes.                                  *)

GwMessages ==
    {<<SysMsg("system_prompt"), UsrMsg("u1")>>,
     <<SysMsg("system_prompt"), UsrMsg("u1"),
       AsstMsg(NoneText, TRUE, <<StructCall("c1", "get_current_time", "valid", "ok")>>),
       AMsg("tool", "result", FALSE, <<>>, "c1", "get_current_time")>>}
GwCatalogs ==
    {NoCatalog, Catalog(<<>>),
     Catalog(<<[type |-> "function", name |-> "get_current_time"]>>)}
GwChoices == {NoChoice, "get_current_time"}

\* vllm_client.py 25-56: chat() up to its POST
GwCall(msgs, cat, choice) ==
    /\ gw.pc = "idle"
    /\ gw' = [IdleGw EXCEPT !.pc = "posted", !.client = "backend", !.source = "direct",
                            !.cat = cat, !.choice = choice, !.posts = 1,
                            !.request = ChatPayload(msgs, cat, choice)]
    /\ UNCHANGED <<agentVars, model, chatReq, inv, ext>>

\* agent.py 59-83: chat_completion() up to its POST
GwCallCompletion(cat) ==
    /\ gw.pc = "idle"
    /\ gw' = [IdleGw EXCEPT !.pc = "posted", !.client = "agent", !.source = "direct",
                            !.cat = cat, !.posts = 1,
                            !.request = ChatCompletionPayload(
                                            ApiMessages(conversation_history), cat)]
    /\ UNCHANGED <<agentVars, model, chatReq, inv, ext>>

\* agent.py 261-266: the call chat() makes
GwCallFromLoop ==
    /\ gw.pc = "idle"
    /\ gw' = [IdleGw EXCEPT !.pc = "posted", !.client = "agent", !.source = "loop",
                            !.cat = AgentCatalog, !.posts = 1,
                            !.request = ChatCompletionPayload(
                                            ApiMessages(conversation_history), AgentCatalog)]
    /\ UNCHANGED <<agentVars, model, chatReq, inv, ext>>

\* vllm_client.py 57-63 and 95-142, agent.py 84-92: the POST is answered
GwAnswer(ans) ==
    /\ gw.pc = "posted"
    /\ ans \in GwEndpointAnswers(endpoint, gw.request)
    /\ gw' = [gw EXCEPT !.pc = "returned", !.answer = ans,
                        !.result = IF gw.client = "backend"
                                   THEN ChatResult(gw.request, ans)
                                   ELSE ChatCompletionResult(gw.request, ans)]
    /\ UNCHANGED <<agentVars, model, chatReq, inv, ext>>

GwReset ==
    /\ gw.pc = "returned"
    /\ gw' = IdleGw
    /\ UNCHANGED <<agentVars, model, chatReq, inv, ext>>

GwAddTool(n, f) == gw.pc = "idle" /\ AddTool(n, f)
GwRemoveTool(n) == gw.pc = "idle" /\ RemoveTool(n)

NextGateway ==
    \/ \E msgs \in GwMessages, cat \in GwCatalogs, choice \in GwChoices :
          GwCall(msgs, cat, choice)
    \/ \E cat \in GwCatalogs : GwCallCompletion(cat)
    \/ GwCallFromLoop
    \/ \E ans \in GwAllAnswers : GwAnswer(ans)
    \/ GwReset
    \/ \E n \in LoopToolNames, f \in HandlerKinds : GwAddTool(n, f)
    \/ \E n \in LoopToolNames : GwRemoveTool(n)

InitGateway ==
    /\ tools = <<>>
    /\ lastOp = [n \in ToolNames |-> NoOp]
    /\ lastAnswer = [p \in Callers |-> NoAnswer]
    /\ system_prompt = "default_prompt"
    /\ conversation_history = <<SystemTurn(system_prompt)>>
    /\ max_iterations = MaxIterations
    /\ call = [p \in Callers |-> IdleCall]
    /\ endpoint \in EndpointPolicies
    /\ failedBefore = FALSE
    /\ clearedFrom = 0
    /\ gw = IdleGw
    /\ inv = IdleInv
    /\ ext = IdleExt
    /\ model = DefaultModel
    /\ chatReq = [r \in Requests |-> IdleReq]

SpecGateway == InitGateway /\ [][NextGateway]_vars

----------------------------------------------------------------------------
(* /api/chat serving one request at a time *)

InitApp ==
    /\ tools = <<>>
    /\ lastOp = [n \in ToolNames |-> NoOp]
    /\ lastAnswer = [p \in Callers |-> NoAnswer]
    /\ system_prompt = "default_prompt"
    /\ conversation_history = <<SystemTurn(system_prompt)>>
    /\ max_iterations = MaxIterations
    /\ call = [p \in Callers |-> IdleCall]
    /\ endpoint \in EndpointPolicies
    /\ failedBefore = FALSE
    /\ clearedFrom = 0
    /\ gw = IdleGw
    /\ inv = IdleInv
    /\ ext = IdleExt
    /\ model \in ModelIds
    /\ chatReq = [r \in Requests |-> IdleReq]

SeqAppChatStart(r, m) == NoRequestActive /\ AppChatStart(r, m)

NextApp ==
    \/ \E r \in SeqRequests, m \in RouteMessages : SeqAppChatStart(r, m)
    \/ \E r \in SeqRequests, ans \in GwAllAnswers : AppOssReturns(r, ans)
    \/ \E r \in SeqRequests, ans \in GwAllAnswers : AppFirstReturns(r, ans)
    \/ \E r \in SeqRequests : AppDispatch(r)
    \/ \E r \in SeqRequests, h \in HandlerOutcomes : AppToolReturns(r, h)
    \/ \E r \in SeqRequests, ans \in GwAllAnswers : AppFollowupReturns(r, ans)
    \/ \E r \in SeqRequests : AppRespond(r)

SpecApp == InitApp /\ [][NextApp]_vars

----------------------------------------------------------------------------
(* /api/chat serving two requests at once: the handler is a coroutine, so   *)
(* the steps of two requests interleave at every await.  Each request has  *)
(* its own message, and the endpoint gives the calls of each its own id.   *)

MessageOf(r) == IF r = "r1" THEN "hello" ELSE "what time is it"

OwnCalls(r) ==
    IF r = "r1"
    THEN <<StructCall("c1", "get_current_time", "valid", "ok"),
           StructCall("c1", "get_current_time", "emptystr", "ok")>>
    ELSE <<StructCall("c2", "calculate", "malformed", "ok"),
           StructCall("c2", "get_current_time", "valid", "nofunction")>>

\* the answers the endpoint gives to the requests of r
ConcAnswers(r) ==
    {GAnswer("ok", 200, "", Prose, "answer", FALSE, <<>>),
     GAnswer("http", 500, "overloaded", Prose, "", FALSE, <<>>),
     GAnswer("ok", 200, "", ContentNone, NoneText, TRUE, OwnCalls(r))}

NextRoutes ==
    \/ \E r \in Requests : AppChatStart(r, MessageOf(r))
    \/ \E r \in Requests : \E ans \in ConcAnswers(r) : AppOssReturns(r, ans)
    \/ \E r \in Requests : \E ans \in ConcAnswers(r) : AppFirstReturns(r, ans)
    \/ \E r \in Requests : AppDispatch(r)
    \/ \E r \in Requests, h \in HandlerOutcomes : AppToolReturns(r, h)
    \/ \E r \in Requests : \E ans \in ConcAnswers(r) : AppFollowupReturns(r, ans)
    \/ \E r \in Requests : AppRespond(r)

SpecRoutes == InitApp /\ [][NextRoutes]_vars

----------------------------------------------------------------------------
(* Capability invocation by either dispatcher: execute_tool of a            *)
(* FunctionCallAgent called directly on any registry, and the tool calls   *)
(* of /api/chat.  app.py builds no FunctionCallAgent: a request is served  *)
(* by a process whose agent registry was never touched.                    *)

InvokeNames == ToolNames \cup {GhostName}

\* agent.py 171-192: execute_tool up to its return, or to the await of a
\* coroutine handler
InvokeCall(n, ps, h) ==
    /\ inv.pc = "idle"
    /\ NoRequestActive
    /\ inv' = IF Suspends(n, ps)
              THEN [IdleInv EXCEPT !.pc = "await_tool", !.name = n, !.params = ps]
              ELSE [IdleInv EXCEPT !.pc = "returned", !.name = n, !.params = ps,
                                   !.handler = h, !.result = ExecuteTool(n, ps, h)]
    /\ UNCHANGED <<agentVars, gw, model, chatReq, ext>>

\* agent.py 190 and 196-211: the awaited handler returns or raises
InvokeReturns(h) ==
    /\ inv.pc = "await_tool"
    /\ inv' = [inv EXCEPT !.pc = "returned", !.handler = h,
                          !.result = HandlerResult(inv.name, h)]
    /\ UNCHANGED <<agentVars, gw, model, chatReq, ext>>

\* the caller takes the ToolResult
InvokeReset ==
    /\ inv.pc = "returned"
    /\ inv' = IdleInv
    /\ UNCHANGED <<agentVars, gw, model, chatReq, ext>>

InvAddTool(n, f) == inv.pc = "idle" /\ NoRequestActive /\ AddTool(n, f)
InvRemoveTool(n) == inv.pc = "idle" /\ NoRequestActive /\ RemoveTool(n)
InvAppChatStart(r, m) == inv.pc = "idle" /\ tools = <<>> /\ SeqAppChatStart(r, m)

NextInvoke ==
    \/ \E n \in InvokeNames, ps \in ParamKinds, h \in HandlerOutcomes : InvokeCall(n, ps, h)
    \/ \E h \in HandlerOutcomes : InvokeReturns(h)
    \/ InvokeReset
    \/ \E n \in ToolNames, f \in HandlerKinds : InvAddTool(n, f)
    \/ \E n \in ToolNames : InvRemoveTool(n)
    \/ \E r \in SeqRequests, m \in RouteMessages : InvAppChatStart(r, m)
    \/ \E r \in SeqRequests, ans \in GwAllAnswers : AppOssReturns(r, ans)
    \/ \E r \in SeqRequests, ans \in GwAllAnswers : AppFirstReturns(r, ans)
    \/ \E r \in SeqRequests : AppDispatch(r)
    \/ \E r \in SeqRequests, h \in HandlerOutcomes : AppToolReturns(r, h)
    \/ \E r \in SeqRequests, ans \in GwAllAnswers : AppFollowupReturns(r, ans)
    \/ \E r \in SeqRequests : AppRespond(r)

SpecInvoke == InitApp /\ [][NextInvoke]_vars

----------------------------------------------------------------------------
(* The extractor called directly *)

\* agent.py 213-238: _parse_tool_call(content) returns
Extract(c) ==
    /\ ext.pc = "idle"
    /\ ext' = [pc |-> "returned", content |-> c, result |-> ParseToolCall(c)]
    /\ UNCHANGED <<agentVars, gw, model, chatReq, inv>>

ExtractReset ==
    /\ ext.pc = "returned"
    /\ ext' = IdleExt
    /\ UNCHANGED <<agentVars, gw, model, chatReq, inv>>

NextExtract ==
    \/ \E c \in ExtractContents : Extract(c)
    \/ ExtractReset

SpecExtract == InitGateway /\ [][NextExtract]_vars

----------------------------------------------------------------------------
(* Orchestration loop of FunctionCallAgent *)

\* C1: a chat() in which every gateway call returned an invocation request has
\* made exactly max_iterations gateway calls when it returns, its last turn is the
\* fixed "too many steps" Assistant turn and that text is what it returns; no
\* chat() ever makes more than max_iterations gateway calls.
C1_StopsAtMaxIterations ==
    \A p \in Callers :
        /\ call[p].gwCalls <= max_iterations
        /\ (call[p].pc = "done" /\ call[p].invocations = call[p].gwCalls) =>
              /\ call[p].gwCalls = max_iterations
              /\ call[p].outcome = "aborted"
              /\ Last(conversation_history) = TimeoutTurn
              /\ call[p].returned = TimeoutTurn

C1_Witness ==
    /\ call["a"].pc = "done"
    /\ call["a"].gwCalls >= 2
    /\ call["a"].invocations = call["a"].gwCalls
    /\ call["a"].outcome = "aborted"

\* C2: a chat() whose first gateway answer carries no invocation returns after
\* that one gateway call, runs no handler, and leaves the transcript longer by
\* the User turn and exactly one Assistant turn, which holds the returned text.
C2_NoInvocationOneIteration ==
    \A p \in Callers :
        (/\ call[p].pc = "done"
         /\ call[p].invocations = 0
         /\ call[p].outcome \in {"final", "processing_error"}) =>
              /\ call[p].gwCalls = 1
              /\ call[p].ran = 0
              /\ Len(conversation_history) = call[p].startLen + 2
              /\ conversation_history[call[p].startLen + 1] = UserTurn(call[p].message)
              /\ Last(conversation_history).cls = "AI"
              /\ Last(conversation_history) = call[p].returned

C2_Witness ==
    /\ call["a"].pc = "done"
    /\ call["a"].outcome = "final"
    /\ call["a"].invocations = 0
    /\ call["a"].gwCalls = 1
    /\ max_iterations >= 2
    /\ Len(tools) > 0

GatewayErrorDetails == {"RequestError", "HTTPStatusError"}

\* C3: a chat() ended by a gateway failure made no gateway call after the failing
\* one, appended exactly one Assistant turn (the apology with the failure detail)
\* which is the returned text; a chat() run afterwards on the same transcript
\* ends with the model's answer as usual.
C3_GatewayFailureNotRetried ==
    \A p \in Callers :
        /\ (call[p].pc = "done" /\ call[p].outcome = "gateway_error") =>
              /\ call[p].gwCalls = call[p].invocations + 1
              /\ Len(conversation_history) = call[p].startLen + 2 + 2 * call[p].invocations
              /\ Last(conversation_history) = call[p].returned
              /\ call[p].returned.kind = "apology"
              /\ call[p].returned.cls = "AI"
              /\ call[p].returned.text \in GatewayErrorDetails
        /\ (failedBefore /\ call[p].pc = "done" /\ call[p].outcome = "final") =>
              /\ Last(conversation_history) = call[p].returned
              /\ call[p].returned.kind = "model"
              /\ call[p].gwCalls = call[p].invocations + 1

\* a chat() that failed at the gateway is followed by one that ends normally
C3_Witness ==
    /\ failedBefore
    /\ call["a"].pc = "done"
    /\ call["a"].outcome = "final"
    /\ \E i \in 1..Len(conversation_history) :
          /\ conversation_history[i].kind = "apology"
          /\ conversation_history[i].text \in GatewayErrorDetails
          /\ i < call["a"].startLen + 1

\* C6: right after clear_history() the transcript is exactly the System turn that
\* carries the agent's system prompt.
C6_ClearLeavesSystemTurn ==
    clearedFrom > 0 => conversation_history = <<SystemTurn(system_prompt)>>

\* cleared after chats that left a failure and tool results behind
C6_Witness ==
    /\ clearedFrom >= 5
    /\ Len(tools) > 0

\* C10: execute_tool of a name that is not registered returns a failed outcome
\* with the "not found" error naming that capability, without running a handler
\* and without raising; the result turn folded into the transcript says so.
C10_UnknownToolNotFound ==
    /\ \A n \in ToolNames \cup {GhostName}, ps \in {"ok", "empty", "bad", "notmapping"},
          h \in HandlerOutcomes :
          ~Registered(n) =>
              ExecuteTool(n, ps, h) = ToolResult(FALSE, "none", "not_found", n, FALSE)
    /\ \A i \in 1..Len(conversation_history) :
          (/\ conversation_history[i].kind = "tool_result"
           /\ conversation_history[i].result.tool_name = GhostName) =>
              /\ conversation_history[i].result.error = "not_found"
              /\ ~conversation_history[i].result.success
              /\ ~conversation_history[i].result.ran
              /\ conversation_history[i].text = "failure"

C10_Witness ==
    /\ Len(tools) > 0
    /\ \E i \in 1..Len(conversation_history) :
          /\ conversation_history[i].kind = "tool_result"
          /\ conversation_history[i].result.tool_name = GhostName
          /\ conversation_history[i].result.error = "not_found"

----------------------------------------------------------------------------
(* Dispatch of structured tool calls in /api/chat *)

\* the identifier a result turn carries for a declared call: the call's own, or
\* the one made up at app.py 185 or 229 when the call has none
Declares(c, id) == c.id = id \/ (c.id = "absent" /\ id \in {"unknown", "error"})

\* C4: the result turns of a request follow its Assistant turn in the order in
\* which that turn declares the calls: the k-th result answers the k-th call;
\* a call is started only when the results of all calls before it are recorded.
C4_ResultsInRequestOrder ==
    \A r \in Requests :
        LET msgs == chatReq[r].messages IN
        (Len(msgs) >= 3 /\ msgs[3].role = "assistant") =>
            /\ \A k \in 1..(Len(msgs) - 3) :
                  /\ msgs[3 + k].role = "tool"
                  /\ k <= Len(msgs[3].calls)
                  /\ Declares(msgs[3].calls[k], msgs[3 + k].tool_call_id)
                  /\ msgs[3 + k].name \in {msgs[3].calls[k].name, "none", "unknown"}
            /\ chatReq[r].pc \in {"dispatch", "await_tool"} =>
                  Len(msgs) - 3 = chatReq[r].i - 1
            /\ chatReq[r].pc = "await_followup" => Len(msgs) - 3 = Len(msgs[3].calls)

\* two calls declared as c2, c1: the second one awaited, both results recorded
C4_Witness ==
    LET msgs == chatReq["r1"].messages IN
    /\ chatReq["r1"].pc = "await_followup"
    /\ Len(msgs) = 5
    /\ msgs[4].tool_call_id = "c2"
    /\ msgs[5].tool_call_id = "c1"
    /\ chatReq["r1"].ran = 1

\* C5: every result turn of a transcript comes after an Assistant turn that
\* declares its invocation: in /api/chat a call with the same identifier (the
\* made-up one when the call has none), in FunctionCallAgent, whose turns carry
\* no identifier, the Assistant turn just before it, naming the same capability.
C5_ResultAfterDeclaration ==
    /\ \A r \in Requests :
          LET msgs == chatReq[r].messages IN
          \A i \in 1..Len(msgs) :
              msgs[i].role = "tool" =>
                  \E j \in 1..(i - 1) :
                      /\ msgs[j].role = "assistant"
                      /\ msgs[j].hasCalls
                      /\ \E k \in 1..Len(msgs[j].calls) :
                            Declares(msgs[j].calls[k], msgs[i].tool_call_id)
    /\ \A i \in 1..Len(conversation_history) :
          conversation_history[i].kind = "tool_result" =>
              /\ i > 1
              /\ conversation_history[i - 1].cls = "AI"
              /\ conversation_history[i - 1].kind = "model"
              /\ Classify(ParseToolCall(conversation_history[i - 1].content)) = "invoke"
              /\ ParseToolCall(conversation_history[i - 1].content).name =
                    conversation_history[i].result.tool_name

C5_Witness ==
    LET msgs == chatReq["r1"].messages IN
    /\ Len(msgs) = 5
    /\ msgs[4].role = "tool" /\ msgs[4].tool_call_id = "unknown"
    /\ msgs[5].role = "tool" /\ msgs[5].tool_call_id = "c1"

----------------------------------------------------------------------------
(* Capability invocation *)

\* the calls of a request whose result is recorded, by position
Answered(r) ==
    IF Len(chatReq[r].messages) >= 3 /\ chatReq[r].messages[3].role = "assistant"
    THEN 1..(Len(chatReq[r].messages) - 3)
    ELSE {}

\* the request failed while its i-th call was dispatched
FailedInDispatch(r) ==
    /\ chatReq[r].pc = "done"
    /\ chatReq[r].status = 500
    /\ chatReq[r].i \in 1..Len(chatReq[r].calls)
    /\ Len(chatReq[r].messages) < 3 + chatReq[r].i

C12_Original ==
    (inv.pc = "returned" /\ Registered(inv.name) /\ inv.params \in {"ok", "empty"}) =>
        inv.result.success /\ ~inv.result.raised

\* C12 amended: for a registered name execute_tool never raises; it returns
\* success=true when the tool has no function or its handler returns, and
\* success=false with the failure's description when the handler raises or
\* cannot be called with the arguments.
C12_RegisteredNeverRaises ==
    (inv.pc = "returned" /\ Registered(inv.name)) =>
        /\ ~inv.result.raised
        /\ inv.result.tool_name = inv.name
        /\ Lookup(inv.name).fn = "none" => inv.result.success /\ ~inv.result.ran
        /\ (Lookup(inv.name).fn # "none" /\ inv.params \in {"bad", "notmapping"}) =>
              /\ ~inv.result.success /\ ~inv.result.ran
              /\ inv.result.error = "type_error"
        /\ (Lookup(inv.name).fn # "none" /\ inv.params \in {"ok", "empty"}) =>
              /\ inv.result.ran
              /\ inv.result.success <=> inv.handler = "returns"
              /\ ~inv.result.success => inv.result.error = "handler_error"

\* a registered coroutine handler, called with arguments it accepts, raised
C12_Witness ==
    /\ inv.pc = "returned"
    /\ Registered(inv.name)
    /\ Lookup(inv.name).fn = "async"
    /\ inv.params = "ok"
    /\ inv.result.ran
    /\ ~inv.result.success

\* C13: a handler that raises while running does not make its dispatcher
\* fail.  execute_tool returns success=false with the failure's description and
\* raises nothing; in the loop the failed outcome is folded as a result turn and
\* chat() does not end in its except branch on it; in /api/chat the call gets
\* the "Tool execution failed" result and the request does not fail on it.
C13_HandlerFailureCaught ==
    /\ (inv.pc = "returned" /\ inv.result.ran /\ inv.handler = "raises") =>
          /\ ~inv.result.raised
          /\ ~inv.result.success
          /\ inv.result.error = "handler_error"
          /\ inv.result.tool_name = inv.name
    /\ \A p \in Callers :
          call[p].pc = "done" => call[p].returned.text # "handler_error"
    /\ \A i \in 1..Len(conversation_history) :
          LET t == conversation_history[i] IN
          (t.kind = "tool_result" /\ t.result.ran /\ ~t.result.success) =>
              t.result.error = "handler_error" /\ ~t.result.raised
    /\ \A r \in Requests :
          /\ \A k \in Answered(r) :
                /\ k \in chatReq[r].raisedIdx =>
                      chatReq[r].messages[3 + k].text = "Tool execution failed"
                /\ k \in chatReq[r].ranIdx \ chatReq[r].raisedIdx =>
                      chatReq[r].messages[3 + k].text = "result"
          /\ chatReq[r].raisedIdx \subseteq Answered(r) \cap chatReq[r].ranIdx
          /\ FailedInDispatch(r) => chatReq[r].i \notin chatReq[r].ranIdx

\* the awaited handler of the first of two calls raised; the second call ran
C13_Witness ==
    /\ chatReq["r1"].raisedIdx = {1}
    /\ chatReq["r1"].ranIdx = {1, 2}
    /\ chatReq["r1"].messages[4].text = "Tool execution failed"
    /\ chatReq["r1"].messages[5].text = "result"

----------------------------------------------------------------------------
(* Call-intent extraction *)

\* the loop invoked the capability n for the model turn it handled last: it is
\* suspended in n's handler, or n's result turn ends the transcript (before the
\* "too many steps" turn when the budget ended there)
LoopInvoked(p, n) ==
    \/ call[p].pc = "await_tool" /\ call[p].pending.name = n
    \/ /\ call[p].pc \in {"await_gateway", "done"}
       /\ \E i \in (Len(conversation_history) - 1)..Len(conversation_history) :
             /\ i >= 1
             /\ conversation_history[i].kind = "tool_result"
             /\ conversation_history[i].result.tool_name = n

\* C14: when the model turn the loop received carries a structured tool-call
\* list, the loop invokes what the list names, whatever the turn's text is.
C14_StructuredListTaken ==
    \A p \in Callers :
        (call[p].pc # "idle" /\ lastAnswer[p].kind = "ok" /\ lastAnswer[p].hasCalls
         /\ Len(lastAnswer[p].calls) > 0) =>
            LoopInvoked(p, lastAnswer[p].calls[1].name)

\* the text contains a fenced JSON block holding the tool call t
HoldsFenced(c, t) ==
    /\ ~c.isNone
    /\ c.fenced = "block"
    /\ c.block = JObj(t) \/ c.later = t

\* C15 as stated: from a text that contains a fenced JSON block holding
\* {"tool_call": {"name": "x", "parameters": {}}}, whatever surrounds the block,
\* the extractor returns the invocation named "x" with empty arguments.
C15_Original ==
    (ext.pc = "returned" /\ HoldsFenced(ext.content, TCDict("x", "empty"))) =>
        ext.result = TCDict("x", "empty")

\* C15 amended: it does so when the block is the first one, that is when no
\* ```json marker comes before it in the text; what the whole text decodes to
\* and what comes after the block do not matter.
C15_FirstFencedBlockExtracted ==
    (ext.pc = "returned" /\ ~ext.content.isNone /\ ext.content.fenced = "block"
     /\ ext.content.block = JObj(TCDict("x", "empty"))) =>
        /\ ext.result = TCDict("x", "empty")
        /\ Classify(ext.result) = "invoke"
        /\ ext.result.name = "x" /\ ext.result.params = "empty"

\* the block is the first one; the whole text decodes to another tool call
C15_Witness ==
    /\ ext.pc = "returned"
    /\ ext.content.fenced = "block"
    /\ ext.content.block = JObj(TCDict("x", "empty"))
    /\ ext.content.direct = JObj(TCDict("y", "ok"))
    /\ ext.result.name = "x"

\* a text from which no JSON object with the key "tool_call" can be had: neither
\* a fenced block nor the whole text decodes to one
Unrecoverable(c) ==
    /\ ~c.isNone
    /\ ~(c.fenced = "block" /\ c.block.j = "obj" /\ c.block.hasKey)
    /\ ~(c.direct.j = "obj" /\ c.direct.hasKey)
    /\ c.later = NoCall

\* C16: for a content string that is prose, malformed JSON or JSON without the
\* invocation key, the extractor returns no invocation, and the loop, in no
\* except branch, records the turn as the final answer and returns it.
C16_NoInvocationIsFinal ==
    /\ (ext.pc = "returned" /\ Unrecoverable(ext.content)) =>
          ext.result = NoCall /\ Classify(ext.result) = "final"
    /\ \A p \in SeqCallers :
          (call[p].pc # "idle" /\ lastAnswer[p].kind = "ok"
           /\ Unrecoverable(lastAnswer[p].content)) =>
              /\ call[p].pc = "done"
              /\ call[p].outcome = "final"
              /\ call[p].returned = ModelTurn(lastAnswer[p].content)
              /\ Last(conversation_history) = ModelTurn(lastAnswer[p].content)

\* the model answered a fenced block that is not JSON: the turn is the answer
C16_Witness ==
    /\ call["a"].pc = "done"
    /\ lastAnswer["a"].content = Text("block", JInvalid, JInvalid)
    /\ call["a"].outcome = "final"
    /\ Last(conversation_history) = ModelTurn(Text("block", JInvalid, JInvalid))

\* the first fenced block gives no invocation: there is no ```json marker, the
\* block is not closed, its text is not JSON, or the JSON lacks "tool_call"
FencedYieldsNone(c) ==
    \/ c.fenced # "block"
    \/ c.block.j = "invalid"
    \/ ~c.block.hasKey

\* C28: whenever the fenced block gives no invocation, _parse_tool_call returns
\* what json.loads of the whole content holds under "tool_call", and None if it
\* holds nothing.
C28_DirectParseAfterFencedMiss ==
    (ext.pc = "returned" /\ ~ext.content.isNone /\ FencedYieldsNone(ext.content)) =>
        ext.result = DirectStage(ext.content)

\* the contents that differ from c only in the text of a fenced block after the
\* first one: the later block holds a tool call or none, and the whole content,
\* of which that text is a part, decodes as before, or one of the two does not
\* decode at all
LaterVariants(c) ==
    {[c EXCEPT !.later = t, !.direct = d] :
        t \in {NoCall, TCDict("x", "empty")},
        d \in {e \in Decoded : e = c.direct \/ JInvalid \in {e, c.direct}}}

\* C29 as stated: the text of a second or later fenced block never changes what
\* _parse_tool_call returns.
C29_Original ==
    (ext.pc = "returned" /\ ext.content.fenced = "block") =>
        \A v \in LaterVariants(ext.content) : ParseToolCall(v) = ext.result

\* C29 amended: _parse_tool_call returns at most one invocation, that of the
\* first fenced block or that of the whole content, and decodes no fenced block
\* but the first: the text of a later block does not change the result as long
\* as the whole content decodes to the same value.
C29_OnlyFirstBlockRead ==
    (ext.pc = "returned" /\ ext.content.fenced = "block") =>
        /\ ext.result \in {NoCall, ext.content.block.tc, ext.content.direct.tc}
        /\ \A v \in LaterVariants(ext.content) :
              v.direct = ext.content.direct => ParseToolCall(v) = ext.result

\* the first block is an object without the key, a later block holds the call
\* "x", the whole content is no JSON: nothing is returned
C29_Witness ==
    /\ ext.pc = "returned"
    /\ ext.content.fenced = "block"
    /\ ext.content.block = JObjNoKey
    /\ ext.content.direct = JInvalid
    /\ ext.content.later = TCDict("x", "empty")
    /\ ext.result = NoCall

\* a value was found under "tool_call" that is no invocation descriptor: it is
\* not an object, or an object without "name"
Malformed(t) == t # NoCall /\ (t.shape # "dict" \/ ~t.hasName)

\* C30: when the value found under "tool_call" is not an object or has no name,
\* chat() ends the call with the model's content as the final Assistant turn
\* and returns it: nothing is invoked and no apology takes the content's place.
C30_MalformedDescriptorIsFinal ==
    \A p \in SeqCallers :
        LET ans == lastAnswer[p]
            tc == ParseToolCall(ans.content)
        IN  (ans.kind = "ok" /\ ~ans.content.isNone /\ Malformed(tc)) =>
                /\ call[p].pc = "done"
                /\ call[p].outcome = "final"
                /\ call[p].returned = ModelTurn(ans.content)
                /\ Last(conversation_history) = ModelTurn(ans.content)

----------------------------------------------------------------------------
(* Requests and the transcript *)

\* the request holds the content of every message of msgs, in order (None sent
\* as the empty string): as its messages, or as the lines of its prompt before
\* the open "Assistant:" line
Carries(rq, msgs) ==
    IF rq.path = "/v1/chat/completions"
    THEN rq.messages = FilterMessages(msgs)
    ELSE /\ Len(rq.prompt) = Len(msgs) + 1
         /\ \A i \in 1..Len(msgs) : rq.prompt[i].text = FilterMessages(msgs)[i].text

\* C17: every request carries the whole transcript in order: the requests of
\* the loop carry every turn of conversation_history, the requests of /api/chat
\* every message of the request's list, the tool results before the follow-up
\* included.
C17_RequestCarriesTranscript ==
    /\ \A p \in SeqCallers :
          call[p].pc = "await_gateway" =>
              call[p].request.messages = ApiMessages(conversation_history)
    /\ \A r \in Requests :
          chatReq[r].pc \in {"await_oss", "await_first", "await_followup"} =>
              Carries(chatReq[r].request, chatReq[r].messages)

----------------------------------------------------------------------------
(* Failed invocations in the loop *)

\* the call t names a capability that is not registered, or gives a registered
\* handler arguments it does not accept
ProtocolNoise(t) ==
    /\ t.name # Unhashable
    /\ \/ ~Registered(t.name)
       \/ Lookup(t.name).fn # "none" /\ t.params \in {"bad", "notmapping"}

NoiseError(t) == IF ~Registered(t.name) THEN "not_found" ELSE "type_error"

\* the step in which chat() of p takes the endpoint's answer
TakesAnswer(p) == call[p].pc = "await_gateway" /\ call'[p] # call[p]

\* C18: when the model's turn asks for a capability that is not registered, or
\* gives a handler arguments it does not accept, chat() does not end in its
\* except branch: the model turn and a result turn with the error are appended
\* to the transcript, and if iterations < max_iterations the next request, which
\* carries both, is sent; otherwise the call ends with the "too many steps" turn.
C18_NoiseFoldedLoopContinues ==
    [][\A p \in SeqCallers :
         LET ans == lastAnswer'[p]
             tc == ParseToolCall(ans.content)
             h == conversation_history
             r == ToolResult(FALSE, "none", NoiseError(tc), tc.name, FALSE)
             folded == Append(Append(h, ModelTurn(ans.content)), ResultTurn(r))
         IN  (/\ TakesAnswer(p)
              /\ ans.kind = "ok"
              /\ Classify(tc) = "invoke"
              /\ ProtocolNoise(tc))
             => IF call[p].iterations < max_iterations
                THEN /\ conversation_history' = folded
                     /\ call'[p].pc = "await_gateway"
                     /\ call'[p].gwCalls = call[p].gwCalls + 1
                     /\ call'[p].request.messages = ApiMessages(folded)
                ELSE /\ conversation_history' = Append(folded, TimeoutTurn)
                     /\ call'[p].pc = "done"
                     /\ call'[p].outcome = "aborted"
      ]_vars

\* the handler of t1 rejected the arguments of the first turn; the error was
\* folded and the second request of the call, which carries it, is in flight
C18_Witness ==
    /\ call["a"].pc = "await_gateway"
    /\ call["a"].gwCalls = 2
    /\ Last(conversation_history).kind = "tool_result"
    /\ Last(conversation_history).result.error = "type_error"
    /\ ~Last(conversation_history).result.success
    /\ Last(call["a"].request.messages).result.error = "type_error"

----------------------------------------------------------------------------
(* Answer of a conversational turn *)

\* C19: every finished request has a text response: chat() of the agent returns
\* the text of an Assistant turn, and /api/chat answers 200 with a response
\* text, also when the endpoint or a handler failed; no request ends in an error
\* status.
C19_AlwaysTextResponse ==
    /\ \A p \in Callers :
          call[p].pc = "done" =>
              call[p].returned.cls = "AI" /\ call[p].returned = Last(conversation_history)
    /\ \A r \in Requests :
          chatReq[r].pc = "done" => chatReq[r].status = 200

----------------------------------------------------------------------------
(* Registry *)

\* the positions of self.tools, and of the catalog, that hold the name n
Held(n) == {i \in 1..Len(tools) : tools[i].name = n}
Listed(n) == {i \in 1..Len(GetToolsSchema) : GetToolsSchema[i].name = n}

\* C20: whatever add_tool and remove_tool calls were made, the registry holds at
\* most one Tool per name; a name is held exactly when the last call on it was
\* add_tool, and then with the function of that call; get_tools_schema has
\* exactly one entry for each Tool held and none for other names; and remove_tool
\* of a name that is not held leaves the registry as it was.
C20_RegistryAfterAnySequence ==
    /\ [](\A n \in ToolNames :
            /\ Cardinality(Held(n)) <= 1
            /\ Registered(n) <=> lastOp[n].op = "register"
            /\ Registered(n) => Lookup(n) = Tool(n, lastOp[n].fn)
            /\ Cardinality(Listed(n)) = (IF Registered(n) THEN 1 ELSE 0))
    /\ [](Len(GetToolsSchema) = Len(tools)
          /\ \A i \in 1..Len(tools) : tools[i].name \in ToolNames)
    /\ [][\A n \in ToolNames :
            (~Registered(n) /\ lastOp'[n] = Unregistration /\ lastOp[n] # Unregistration)
                => tools' = tools]_vars

\* t1 was registered and then unregistered, t2 is held with the coroutine
\* function it was registered with last
C20_Witness ==
    /\ lastOp["t1"] = Unregistration
    /\ lastOp["t2"] = Registration("async")
    /\ tools = <<Tool("t2", "async")>>
    /\ GetToolsSchema = <<[type |-> "function", name |-> "t2"]>>

----------------------------------------------------------------------------
(* Transcript *)

\* C21: the transcript is never empty, its first turn is the System turn with
\* the prompt given to the constructor, no later turn is a System turn, and no
\* step of chat, clear_history, add_tool or remove_tool changes the first turn
\* or self.system_prompt.
C21_SystemTurnFirstAndFixed ==
    /\ [](/\ Len(conversation_history) >= 1
          /\ conversation_history[1] = SystemTurn(system_prompt)
          /\ \A i \in 2..Len(conversation_history) :
                conversation_history[i].cls # "System")
    /\ [][/\ system_prompt' = system_prompt
          /\ conversation_history'[1] = conversation_history[1]]_vars

\* a custom prompt; chats were made, a Tool registered and unregistered, and the
\* transcript cleared
C21_Witness ==
    /\ system_prompt = "custom_prompt"
    /\ clearedFrom >= 3
    /\ lastOp["t1"] = Unregistration
    /\ conversation_history = <<SystemTurn("custom_prompt")>>

\* s is a prefix of t
IsPrefix(s, t) == Len(s) <= Len(t) /\ SubSeq(t, 1, Len(s)) = s

\* C22: a step of chat() leaves the turns that were in the transcript where they
\* are and as they are, and adds turns after them or none; add_tool and
\* remove_tool leave the transcript alone; a step after which an earlier turn is
\* gone or changed is a clear_history.
C22_ChatOnlyAppends ==
    [][/\ call' # call => IsPrefix(conversation_history, conversation_history')
       /\ tools' # tools => conversation_history' = conversation_history
       /\ ~IsPrefix(conversation_history, conversation_history') =>
             /\ clearedFrom' = Len(conversation_history)
             /\ call' = call
             /\ conversation_history' = <<SystemTurn(system_prompt)>>
      ]_vars

\* the endpoint failed on the second request of a call, after one invocation
\* was folded: User, Assistant, result and apology turns follow the old ones
C22_Witness ==
    /\ call["a"].pc = "done"
    /\ call["a"].outcome = "gateway_error"
    /\ call["a"].invocations = 1
    /\ Len(conversation_history) = call["a"].startLen + 4
    /\ call["a"].startLen >= 2

----------------------------------------------------------------------------
(* Concurrent conversations *)

\* the message m is one of the conversation of r: the system prompt, the
\* user's message of r, the model's turn with the calls of r, or the result of
\* one of those calls
OwnMessage(r, m) ==
    CASE m.role = "system" -> TRUE
      [] m.role = "user" -> m.text = chatReq[r].message
      [] m.role = "assistant" -> m.calls = chatReq[r].calls
      [] m.role = "tool" ->
            \E k \in 1..Len(chatReq[r].calls) : m.tool_call_id = chatReq[r].calls[k].id

\* C23: while two /api/chat requests are served at once, the messages list of
\* each holds only its own turns (one system prompt, its user's message, the
\* model's turn, the results of its own calls), and so do the messages and the
\* prompt of the requests it sends to the endpoint.
C23_TranscriptsIndependent ==
    \A r \in Requests :
        chatReq[r].pc # "idle" =>
            /\ Len(chatReq[r].messages) <= 3 + Len(chatReq[r].calls)
            /\ \A i \in 1..Len(chatReq[r].messages) : OwnMessage(r, chatReq[r].messages[i])
            /\ chatReq[r].messages[2] = UsrMsg(chatReq[r].message)
            /\ \A i \in 1..Len(chatReq[r].request.messages) :
                  OwnMessage(r, chatReq[r].request.messages[i])
            /\ \A i \in 1..Len(chatReq[r].request.prompt) :
                  chatReq[r].request.prompt[i].label = "User" =>
                      chatReq[r].request.prompt[i].text = chatReq[r].message
            /\ Len(chatReq[r].request.prompt) <= 4

\* both requests are suspended in their follow-up request, each after the two
\* results of its own calls
C23_Witness ==
    /\ chatReq["r1"].pc = "await_followup"
    /\ chatReq["r2"].pc = "await_followup"
    /\ Len(chatReq["r1"].messages) = 5
    /\ Len(chatReq["r2"].messages) = 5
    /\ chatReq["r1"].messages[5].tool_call_id = "c1"
    /\ chatReq["r2"].messages[5].tool_call_id = "c2"

\* chat() of p has appended its User turn and not yet its final Assistant turn
InsideChat(p) == call[p].pc \in {"await_gateway", "await_tool"}

\* C24: two chat() calls on one agent never interleave: while one call is
\* between the append of its User turn and the append of its final Assistant
\* turn, no other call has begun (and so appended its User turn or read the
\* transcript for a request) without having finished.
C24_ChatCallsDoNotInterleave ==
    \A p, q \in Callers : p # q => ~(InsideChat(p) /\ InsideChat(q))

\* C31: the step in which chat() returns (a final answer, the apology of the
\* except branch, the "too many steps" text) leaves an Assistant turn at the end
\* of the transcript, and that turn holds the text returned; until another
\* operation is started the transcript ends with it.
C31_ReturnedTextIsLastTurn ==
    /\ [](\A p \in SeqCallers :
            call[p].pc = "done" =>
                /\ Last(conversation_history) = call[p].returned
                /\ Last(conversation_history).cls = "AI")
    /\ [][\A p \in SeqCallers :
            (call[p].pc # "done" /\ call'[p].pc = "done") =>
                /\ Len(conversation_history') > Len(conversation_history)
                /\ Last(conversation_history') = call'[p].returned
                /\ RoleOf(Last(conversation_history').cls) = "assistant"]_vars

\* the budget ran out after an invocation was folded: the "too many steps" turn
\* is returned and is the last turn
C31_Witness ==
    /\ call["a"].pc = "done"
    /\ call["a"].outcome = "aborted"
    /\ call["a"].invocations >= 1
    /\ call["a"].returned = TimeoutTurn
    /\ Last(conversation_history) = TimeoutTurn

\* an Assistant turn whose content the loop took for an invocation request
AsksInvocation(t) ==
    t.kind = "model" /\ Classify(ParseToolCall(t.content)) = "invoke"

\* C35: with chat() calls of two coroutines interleaved on one agent, every
\* Assistant turn that asked for an invocation is followed at once by the result
\* turn of the capability it named: the two turns are appended in one step, by
\* the call that made the invocation, and no step puts a turn between them.
C35_RequestAndResultAdjacent ==
    /\ [](\A i \in 1..Len(conversation_history) :
            AsksInvocation(conversation_history[i]) =>
                /\ i < Len(conversation_history)
                /\ conversation_history[i + 1].kind = "tool_result"
                /\ conversation_history[i + 1].cls = "Human"
                /\ conversation_history[i + 1].result.tool_name =
                      ParseToolCall(conversation_history[i].content).name)
    /\ [][/\ IsPrefix(conversation_history, conversation_history')
          /\ \A i \in (Len(conversation_history) + 1)..Len(conversation_history') :
                AsksInvocation(conversation_history'[i]) =>
                    /\ i = Len(conversation_history) + 1
                    /\ Len(conversation_history') >= i + 1
                    /\ \E p \in Callers :
                          /\ call'[p].invocations = call[p].invocations + 1
                          /\ call[p].pc = "await_tool" =>
                                /\ conversation_history'[i].content = call[p].pendingContent
                                /\ conversation_history'[i + 1].result.tool_name =
                                      call[p].pending.name
                          /\ \A q \in Callers \ {p} : call'[q] = call[q]]_vars

\* both calls are in progress, their User turns are next to each other, and the
\* request and result turns of an invocation of each follow, pair after pair
C35_Witness ==
    /\ InsideChat("a") /\ InsideChat("b")
    /\ call["a"].invocations = 1 /\ call["b"].invocations = 1
    /\ Len(conversation_history) = 7
    /\ conversation_history[2].kind = "user"
    /\ conversation_history[3].kind = "user"
    /\ AsksInvocation(conversation_history[4])
    /\ conversation_history[5].result.tool_name = "t1"
    /\ AsksInvocation(conversation_history[6])
    /\ conversation_history[7].result.tool_name = "t1"
    /\ conversation_history[5].result.ran /\ conversation_history[7].result.ran

----------------------------------------------------------------------------
(* Deadlines *)

\* C25: an invocation that has been started ends, also when the handler never
\* completes: the call of chat() that is suspended in a handler eventually
\* returns a text.
C25_InvocationBoundedByDeadline ==
    \A p \in SeqCallers : (call[p].pc = "await_tool") ~> (call[p].pc = "done")

----------------------------------------------------------------------------
(* Results of the calls of a turn *)

\* the handler of /api/chat is past the loop over the calls of the model's turn
PastDispatch(r) ==
    /\ chatReq[r].pc \in {"await_followup", "done"}
    /\ Len(chatReq[r].messages) >= 3
    /\ chatReq[r].messages[3].role = "assistant"
    /\ chatReq[r].messages[3].hasCalls

\* C26: when /api/chat is done with the calls of the model's turn, the
\* transcript holds exactly one role "tool" message for each of them, in their
\* order, whatever became of the call (result, invalid arguments, unknown tool,
\* handler failure, malformed call), and the tool_call_id of each is the id of
\* its call (the made-up id when the call has none).
C26_OneResultPerCall ==
    \A r \in Requests :
        PastDispatch(r) =>
            LET msgs == chatReq[r].messages IN
            /\ Len(msgs) - 3 = Len(msgs[3].calls)
            /\ \A k \in 1..(Len(msgs) - 3) :
                  /\ msgs[3 + k].role = "tool"
                  /\ k <= Len(msgs[3].calls)
                  /\ Declares(msgs[3].calls[k], msgs[3 + k].tool_call_id)

\* C27: a request whose model turn carries no call (no "tool_calls", or an
\* empty list) is answered from that turn: /api/chat sends a second request to
\* the endpoint only when the model's turn carries at least one call.
C27_NoCallsNoFollowup ==
    \A r \in Requests :
        chatReq[r].gwCalls >= 2 =>
            /\ Len(chatReq[r].messages) >= 3
            /\ chatReq[r].messages[3].role = "assistant"
            /\ Len(chatReq[r].messages[3].calls) > 0

----------------------------------------------------------------------------
(* Rounds of one /api/chat request *)

\* the text /api/chat answers with when the follow-up request got the answer ans
FollowupOutcome(r, ans) ==
    LET res == ChatResult(chatReq[r].request, ans) IN
    IF res.raised \/ ~res.hasChoices \/ res.text = NoneText
    THEN [status |-> 500, response |-> ""]
    ELSE [status |-> 200, response |-> res.text]

\* C33: one /api/chat request calls the gateway at most twice and dispatches the
\* calls of one model turn only: handlers run while the request has made its
\* first gateway call and not its second, each call of the first turn at most
\* once; the step that takes the answer of the follow-up request ends the
\* request with the text of that answer, runs no handler and sends nothing
\* more, also when the follow-up message has a "tool_calls" key.
C33_TwoCallsOneRound ==
    /\ [](\A r \in Requests :
            /\ chatReq[r].gwCalls <= 2
            /\ chatReq[r].pc \in {"dispatch", "await_tool"} => chatReq[r].gwCalls = 1
            /\ chatReq[r].ran <= Len(chatReq[r].calls)
            /\ chatReq[r].ranIdx \subseteq 1..Len(chatReq[r].calls)
            /\ chatReq[r].calls # <<>> => chatReq[r].calls = chatReq[r].messages[3].calls)
    /\ [][\A r \in Requests :
            (chatReq[r].pc = "await_followup" /\ chatReq'[r] # chatReq[r]) =>
                /\ chatReq'[r].pc = "done"
                /\ chatReq'[r].gwCalls = chatReq[r].gwCalls
                /\ chatReq'[r].ran = chatReq[r].ran
                /\ chatReq'[r].messages = chatReq[r].messages
                /\ \E ans \in GwEndpointAnswers(endpoint, chatReq[r].request) :
                      /\ chatReq'[r].status = FollowupOutcome(r, ans).status
                      /\ chatReq'[r].response = FollowupOutcome(r, ans).response]_vars

\* two calls of the first turn were run, the follow-up request was answered
\* with a message that has the "tool_calls" key, and its text is the response
C33_Witness ==
    /\ chatReq["r1"].pc = "done"
    /\ chatReq["r1"].gwCalls = 2
    /\ chatReq["r1"].ran = 2
    /\ chatReq["r1"].status = 200
    /\ chatReq["r1"].response = "answer"
    /\ ChatResult(chatReq["r1"].request,
                  GAnswer("ok", 200, "", Prose, "answer", FALSE, <<>>)).hasCalls

----------------------------------------------------------------------------
(* The gpt-oss branch of /api/chat *)

\* C34: when the configured model identifier contains "gpt-oss" (as the default
\* of the configuration does), a request of /api/chat is sent to the endpoint
\* without `tools` and without tool_choice, the request makes one gateway call,
\* exactly one by the time it is answered, and no handler is looked up or run,
\* whatever the message and whatever the endpoint answers.
C34_GptOssNeverDispatches ==
    HasGptOss(model) =>
        \A r \in Requests :
            /\ chatReq[r].pc \in {"idle", "await_oss", "done"}
            /\ ~chatReq[r].request.hasTools
            /\ chatReq[r].request.tools = <<>>
            /\ chatReq[r].request.tool_choice = "omitted"
            /\ chatReq[r].pc # "idle" => chatReq[r].gwCalls = 1
            /\ chatReq[r].ran = 0
            /\ chatReq[r].ranIdx = {}
            /\ chatReq[r].calls = <<>>

\* the default model, a question about the time, and an answered request
C34_Witness ==
    /\ model = DefaultModel
    /\ chatReq["r1"].pc = "done"
    /\ chatReq["r1"].message = "what time is it"
    /\ chatReq["r1"].status = 200
    /\ chatReq["r1"].gwCalls = 1

----------------------------------------------------------------------------
(* No state between the requests of /api/chat *)

\* the System message of the branch the configured model takes (app.py 148, 162)
SystemOf(id) ==
    IF IsGptOss(id) THEN SysMsg("system_prompt_tools_in_prose") ELSE SysMsg("system_prompt")

\* C36: /api/chat keeps nothing of a request for the next one.  Whatever request
\* was served before, the transcript of a request begins with the System prompt
\* and the User message of this request and holds no other System or User
\* message; its first endpoint request is made of these two messages, of the
\* catalog and of the tool choice this message calls for; its follow-up request
\* is made of its own transcript; and the calls it dispatches are those of the
\* model turn in its own transcript.
C36_NoStateBetweenRequests ==
    \A r \in Requests :
        chatReq[r].pc # "idle" =>
            LET q == chatReq[r]
                start == <<SystemOf(model), UsrMsg(q.message)>>
                choice == IF LooksLikeTimeQuery(q.message) THEN "get_current_time"
                          ELSE NoChoice
            IN
            /\ Len(q.messages) >= 2
            /\ SubSeq(q.messages, 1, 2) = start
            /\ \A k \in 3..Len(q.messages) : q.messages[k].role \in {"assistant", "tool"}
            /\ q.pc = "await_oss" => q.request = ChatPayload(start, NoCatalog, NoChoice)
            /\ q.pc = "await_first" =>
                   q.request = ChatPayload(start, Catalog(GetSchemas), choice)
            /\ q.pc = "await_followup" =>
                   q.request = ChatPayload(q.messages, NoCatalog, NoChoice)
            /\ q.pc \in {"dispatch", "await_tool"} =>
                   /\ q.messages[3].role = "assistant"
                   /\ q.calls = q.messages[3].calls

\* the request before asked for the time and its calls were run; this one says
\* hello: its request holds its own two messages and forces no tool
C36_Witness ==
    /\ ~IsGptOss(model)
    /\ chatReq["r1"].previous = "what time is it"
    /\ chatReq["r1"].message = "hello"
    /\ chatReq["r1"].pc = "await_first"
    /\ chatReq["r1"].request.tool_choice = "auto"
    /\ Len(chatReq["r1"].request.messages) = 2

----------------------------------------------------------------------------
(* Names the dispatcher of /api/chat resolves *)

\* C32: in /api/chat a tool call runs code only if its name is one of the
\* capabilities declared by get_all_tools(): every call of a model turn whose
\* handler was called bears a declared name, and a call that bears another name
\* ("close", "get_all_tools", a name of no attribute) and got as far as the lookup
\* is answered "Unknown tool".
C32_OnlyDeclaredToolsRun ==
    \A r \in Requests :
        /\ \A k \in chatReq[r].ranIdx : chatReq[r].calls[k].name \in GetAllToolNames
        /\ chatReq[r].pc = "await_tool" =>
               chatReq[r].calls[chatReq[r].i].name \in GetAllToolNames

----------------------------------------------------------------------------
(* Gateway *)

FromEndpoint ==
    /\ gw.answer.kind = "ok"
    /\ gw.result.text = IF gw.request.hasTools THEN gw.answer.text ELSE Strip(gw.answer.text)

C9_ToolChoiceOnlyWithCatalog ==
    gw.pc # "idle" =>
        /\ gw.request.hasTools <=> (gw.cat.given /\ Len(gw.cat.list) > 0)
        /\ gw.request.hasTools =>
              /\ gw.request.tools = gw.cat.list
              /\ gw.request.tool_choice =
                    IF gw.choice # NoChoice THEN gw.choice ELSE "auto"
        /\ ~gw.request.hasTools =>
              /\ gw.request.tools = <<>>
              /\ gw.request.tool_choice = "omitted"
        /\ gw.source = "loop" => (gw.request.hasTools <=> Len(tools) > 0)

\* a forced capability without catalog: nothing of it is in the request
C9_Witness ==
    /\ gw.pc = "posted"
    /\ gw.client = "backend"
    /\ gw.choice = "get_current_time"
    /\ gw.cat = Catalog(<<>>)
    /\ gw.request.tool_choice = "omitted"

====
